---- MODULE Spec2Model ----
(***************************************************************************)
(* Model of the SCIM gateway (launchdarkly-labs/ld-custom-scim-connector): *)
(*   - the OAuth2 TokenManager (auth/token manager source),                *)
(*   - the LaunchDarklyScimClient request wrapper,                         *)
(*   - the users controller over the user_mappings store.                  *)
(* Each component has its own next-state relation and specification; the   *)
(* variables of the other components stay unchanged under it.              *)
(*                                                                         *)
(* Time is counted in whole seconds (the source works in milliseconds and  *)
(* every quantity it adds is a multiple of 1000 ms).                       *)
(***************************************************************************)
EXTENDS Integers, Sequences, FiniteSets, TLC

\* ------------------------------------------------------------------ bounds
MaxCalls == 3
MaxRefreshes == 2
MaxClientRequests == 2
MaxRequests == 2

VARIABLES
  \* TokenManager
  accessToken,     \* this.accessToken: Null, Undefined or a token string
  expiresAt,       \* this.expiresAt: <<>> for null, <<t>> for a Date
  refreshPromise,  \* this.refreshPromise: NoPromise or the id of a token request
  reqs,            \* the refreshToken() promises, by id: state, value, endpoint answer
  calls,           \* the getAccessToken()/forceRefresh() calls issued so far
  now,             \* the wall clock (Date.now()), in seconds
  lastGrant,       \* history: when and how the cached expiry was computed
  \* LaunchDarklyScimClient
  clientReqs,      \* the request() calls made so far
  \* gateway: correlation store, downstream, inbound requests
  mappings,        \* the rows of table user_mappings, in insertion order
  nextRowId,       \* the AUTOINCREMENT counter of user_mappings.id
  uuids,           \* how many uuidv4() values were drawn
  ldUsers,         \* the users of the downstream (LaunchDarkly), by id
  ldDeleted,       \* the ids of the downstream users that were deleted
  gw,              \* the inbound requests: payload, position, response
  \* translation functions
  tr,              \* the last application of a translation: input and result
  \* bearerTokenAuth middleware
  authz            \* the Authorization headers of the requests to /scim/v2

tokenVars == <<accessToken, expiresAt, refreshPromise, reqs, calls, now, lastGrant>>

clientVars == <<clientReqs>>

gwVars == <<mappings, nextRowId, uuids, ldUsers, ldDeleted, gw>>

trVars == <<tr>>

authVars == <<authz>>

vars == <<tokenVars, clientVars, gwVars, trVars, authVars>>

\* ------------------------------------------------------------ TokenManager
Null == "null"
Undefined == "undefined"
NoPromise == 0

\* new TokenManager(config): refreshBufferSeconds ?? 60
RefreshBufferSec == 60
OneYearInSeconds == 365 * 24 * 60 * 60

\* The token the endpoint hands out for the r-th token request.
TokenOf(r) == "tok" \o ToString(r)

\* expires_in carried by a token response: <<>> when the field is absent.
Lifetimes == {<<>>, <<0>>, <<90>>}

\* What the token endpoint can answer to one request: a token response, a JSON
\* object without access_token, a body that is not JSON, a non-2xx status.
TokenAnswers ==
  {[status |-> "ok", body |-> "token", expires_in |-> e] : e \in Lifetimes}
    \cup {[status |-> "ok", body |-> "noToken", expires_in |-> <<>>],
          [status |-> "ok", body |-> "notJson", expires_in |-> <<>>],
          [status |-> "non2xx", body |-> "text", expires_in |-> <<>>]}

\* The instants the clock is observed at: the last second before the buffer
\* window of the cached expiry opens, and the second it opens.
ClockInstants ==
  IF expiresAt = <<>> THEN {}
  ELSE {expiresAt[1] - RefreshBufferSec - 1, expiresAt[1] - RefreshBufferSec}

\* JavaScript truthiness of a string that may be null or undefined
Truthy(tok) == tok \notin {Null, Undefined, ""}

\* A faulty variant: the buffer is ignored.
IsTokenExpiringSoonNoBuffer(exp, t) ==
  IF exp = <<>> THEN TRUE ELSE t >= exp[1]

IsTokenExpiringSoon(exp, t) ==
  IF exp = <<>> THEN TRUE ELSE t >= exp[1] - RefreshBufferSec

\* the guard of getAccessToken's first return
HasUsableToken(tok, exp, t) ==
  Truthy(tok) /\ exp # <<>> /\ ~IsTokenExpiringSoon(exp, t)

\* A faulty variant: concurrent callers never share the refresh underway.
RefreshInProgressNever(p) == FALSE

\* `if (this.refreshPromise)`
RefreshInProgress(p) == p # NoPromise

\* A faulty variant: the handle of the refresh just started is not kept.
StartedHandleDropped(r) == NoPromise

\* `this.refreshPromise = this.refreshToken()`
StartedHandle(r) == r

\* A faulty variant: a response without expires_in is given no lifetime at all.
ExpiryOfNoDefault(a, t) ==
  IF a.expires_in # <<>> /\ a.expires_in[1] # 0
    THEN t + a.expires_in[1]
    ELSE t

\* the expiry refreshToken computes from a parsed token response
ExpiryOf(a, t) ==
  IF a.expires_in # <<>> /\ a.expires_in[1] # 0
    THEN t + a.expires_in[1]
    ELSE t + OneYearInSeconds

InFlight == {r \in 1..Len(reqs) : reqs[r].state = "inflight"}

Settled(r) == reqs[r].state \in {"fulfilled", "rejected"}

TokenInit ==
  /\ accessToken = Null
  /\ expiresAt = <<>>
  /\ refreshPromise = NoPromise
  /\ reqs = <<>>
  /\ calls = <<>>
  /\ now = 0
  /\ lastGrant = [at |-> 0, explicit |-> FALSE]

\* Observation, independent of the manager's own test: whether, read off the
\* cache and the clock, the token is absent or inside the buffer window.
AbsentOrInWindow(tok, exp, t) ==
  \/ ~Truthy(tok)
  \/ exp = <<>>
  \/ t >= exp[1] - RefreshBufferSec

\* Observation: where the clock stands relative to a cached token that was
\* granted without an explicit lifetime ("none" when there is no such token).
YearGrant(tok, t) ==
  IF ~Truthy(tok) \/ lastGrant.explicit THEN "none"
  ELSE IF t < lastGrant.at + OneYearInSeconds - RefreshBufferSec THEN "fresh"
  ELSE "stale"

\* The record of a call, with what was true when it was issued: the cache it
\* found, whether a refresh was needed, the token request in flight (0: none),
\* whether a refresh handle was held, and whether the call sent a request.
CallRecord(kind, pc, req, result, tok, exp) ==
  [kind |-> kind, pc |-> pc, req |-> req, result |-> result,
   cached |-> tok,
   needed |-> AbsentOrInWindow(tok, exp, now),
   flying |-> IF InFlight = {} THEN 0 ELSE CHOOSE r \in InFlight : TRUE,
   held |-> refreshPromise # NoPromise,
   sent |-> pc = "awaiting",
   yearGrant |-> YearGrant(tok, now)]

\* getAccessToken() up to its first await, entered with the cache (tok, exp)
GetAccessTokenFrom(kind, tok, exp) ==
  /\ Len(calls) < MaxCalls
  /\ accessToken' = tok
  /\ expiresAt' = exp
  /\ IF HasUsableToken(tok, exp, now)
       THEN /\ calls' = Append(calls, CallRecord(kind, "returned", NoPromise, tok, tok, exp))
            /\ UNCHANGED <<refreshPromise, reqs>>
       ELSE IF RefreshInProgress(refreshPromise)
         THEN /\ calls' = Append(calls,
                     CallRecord(kind, "joined", refreshPromise, Null, tok, exp))
              /\ UNCHANGED <<refreshPromise, reqs>>
         ELSE /\ Len(reqs) < MaxRefreshes
              /\ reqs' = Append(reqs, [state |-> "inflight", value |-> Null,
                                       answer |-> "none"])
              /\ refreshPromise' = StartedHandle(Len(reqs) + 1)
              /\ calls' = Append(calls,
                     CallRecord(kind, "awaiting", Len(reqs) + 1, Null, tok, exp))
  /\ UNCHANGED <<now, lastGrant>>

getAccessToken ==
  GetAccessTokenFrom("getAccessToken", accessToken, expiresAt)

\* A faulty variant: forceRefresh() forgets to clear the cache.
forceRefreshKeepsCache ==
  GetAccessTokenFrom("forceRefresh", accessToken, expiresAt)

\* forceRefresh(): clear the cache, then getAccessToken()
forceRefresh ==
  GetAccessTokenFrom("forceRefresh", Null, <<>>)

\* The kind of answer, as recorded with the request.
AnswerKind(a) == IF a.status = "ok" THEN a.body ELSE a.status

\* refreshToken() resumes with the endpoint's answer a to request r
refreshToken(r, a) ==
  /\ r \in InFlight
  /\ IF a.status = "ok" /\ a.body # "notJson"
       THEN LET tok == IF a.body = "token" THEN TokenOf(r) ELSE Undefined IN
            /\ accessToken' = tok
            /\ expiresAt' = <<ExpiryOf(a, now)>>
            /\ lastGrant' = [at |-> now, explicit |-> a.expires_in # <<>>]
            /\ reqs' = [reqs EXCEPT ![r] =
                          [state |-> "fulfilled", value |-> tok, answer |-> AnswerKind(a)]]
       ELSE /\ reqs' = [reqs EXCEPT ![r] =
                          [state |-> "rejected", value |-> Null, answer |-> AnswerKind(a)]]
            /\ UNCHANGED <<accessToken, expiresAt, lastGrant>>
  /\ UNCHANGED <<refreshPromise, calls, now>>

\* The outcome a caller gets from a settled refresh promise.
Outcome(c, r) ==
  [c EXCEPT !.pc = IF reqs[r].state = "fulfilled" THEN "returned" ELSE "failed",
            !.result = reqs[r].value]

\* A faulty variant: the finally block is missing and the handle is kept.
StarterResumesKeepsHandle(i) ==
  /\ calls[i].pc = "awaiting"
  /\ Settled(calls[i].req)
  /\ calls' = [calls EXCEPT ![i] = Outcome(calls[i], calls[i].req)]
  /\ UNCHANGED <<accessToken, expiresAt, refreshPromise, reqs, now, lastGrant>>

\* the caller that started the refresh resumes after `await this.refreshPromise`
\* and runs its finally block
StarterResumes(i) ==
  /\ calls[i].pc = "awaiting"
  /\ Settled(calls[i].req)
  /\ refreshPromise' = NoPromise
  /\ calls' = [calls EXCEPT ![i] = Outcome(calls[i], calls[i].req)]
  /\ UNCHANGED <<accessToken, expiresAt, reqs, now, lastGrant>>

\* a caller that returned the shared promise is settled with its outcome
JoinerSettles(i) ==
  /\ calls[i].pc = "joined"
  /\ Settled(calls[i].req)
  /\ calls' = [calls EXCEPT ![i] = Outcome(calls[i], calls[i].req)]
  /\ UNCHANGED <<accessToken, expiresAt, refreshPromise, reqs, now, lastGrant>>

\* time passes, up to one of the instants around the cached expiry
ClockAdvances(t) ==
  /\ t > now
  /\ now' = t
  /\ UNCHANGED <<accessToken, expiresAt, refreshPromise, reqs, calls, lastGrant>>

TokenNext ==
  \/ getAccessToken /\ UNCHANGED <<clientVars, gwVars, trVars, authVars>>
  \/ forceRefresh /\ UNCHANGED <<clientVars, gwVars, trVars, authVars>>
  \/ \E r \in 1..MaxRefreshes, a \in TokenAnswers :
       refreshToken(r, a) /\ UNCHANGED <<clientVars, gwVars, trVars, authVars>>
  \/ \E i \in 1..MaxCalls :
       i <= Len(calls) /\ StarterResumes(i) /\ UNCHANGED <<clientVars, gwVars, trVars, authVars>>
  \/ \E i \in 1..MaxCalls :
       i <= Len(calls) /\ JoinerSettles(i) /\ UNCHANGED <<clientVars, gwVars, trVars, authVars>>
  \/ \E t \in ClockInstants : ClockAdvances(t) /\ UNCHANGED <<clientVars, gwVars, trVars, authVars>>

\* ------------------------------------------------- TokenManager properties
CallIds == 1..Len(calls)

\* C1: callers that find no usable token while a token request is in flight
\* send no request of their own and are bound to that request; every request
\* has exactly one sender; and every caller bound to a request gets that
\* request's result: its token when it succeeded, its failure when it failed.
C1_SingleFlightShared ==
  /\ \A i \in CallIds :
       calls[i].needed =>
         /\ calls[i].req \in 1..Len(reqs)
         /\ calls[i].flying # 0 => (calls[i].req = calls[i].flying /\ ~calls[i].sent)
         /\ calls[i].pc = "returned" =>
              (reqs[calls[i].req].state = "fulfilled"
                 /\ calls[i].result = reqs[calls[i].req].value)
         /\ calls[i].pc = "failed" => reqs[calls[i].req].state = "rejected"
  /\ \A r \in 1..Len(reqs) :
       Cardinality({i \in CallIds : calls[i].sent /\ calls[i].req = r}) = 1
  /\ \A i, j \in CallIds :
       (calls[i].req = calls[j].req /\ calls[i].req # NoPromise
          /\ calls[i].pc = "returned" /\ calls[j].pc = "returned")
         => calls[i].result = calls[j].result

\* Three callers of one cache miss, two of them issued while the request was
\* in flight, have all returned the token of that one request.
C1_Witness ==
  \E r \in 1..Len(reqs) :
    /\ Cardinality({i \in CallIds : calls[i].req = r /\ calls[i].pc = "returned"
                                      /\ calls[i].result = TokenOf(r)}) >= 3
    /\ Cardinality({i \in CallIds : calls[i].flying = r}) >= 2

\* C2: at most one token request is in flight in every reachable state.
C2_AtMostOneInFlight == Cardinality(InFlight) <= 1

\* A second refresh is in flight after a first one failed, with a
\* forceRefresh() caller waiting on it beside the caller that started it.
C2_Witness ==
  /\ Len(reqs) >= 2
  /\ reqs[1].state = "rejected"
  /\ \E i \in CallIds :
       /\ calls[i].kind = "forceRefresh"
       /\ calls[i].pc = "joined"
       /\ calls[i].req \in InFlight

\* C3: a call returns the cached token and sends no token request exactly
\* when the token is present and the clock is before expiresAt - buffer;
\* when the token is absent or the clock is inside the buffer window the call
\* waits on a refresh instead.
C3_CachedUnlessAbsentOrExpiring ==
  \A i \in CallIds :
    /\ ~calls[i].needed =>
         /\ calls[i].pc = "returned"
         /\ calls[i].result = calls[i].cached
         /\ calls[i].req = NoPromise
         /\ ~calls[i].sent
    /\ calls[i].needed => calls[i].req # NoPromise

\* One call was served from the cache, and a later one, finding the same
\* kind of token inside its buffer window, was not.
C3_Witness ==
  \E i, j \in CallIds :
    /\ ~calls[i].needed /\ calls[i].kind = "getAccessToken"
    /\ calls[j].needed /\ Truthy(calls[j].cached) /\ calls[j].sent

\* C4: a token granted without an explicit lifetime expires one year after
\* the grant: getAccessToken() calls before the buffer window of that expiry
\* return it from the cache without a token request, calls from the start of
\* the window on wait on a refresh.
C4_NoLifetimeMeansOneYear ==
  /\ (Truthy(accessToken) /\ ~lastGrant.explicit)
       => expiresAt = <<lastGrant.at + OneYearInSeconds>>
  /\ \A i \in CallIds :
       calls[i].kind = "getAccessToken" =>
         /\ calls[i].yearGrant = "fresh" =>
              /\ calls[i].pc = "returned"
              /\ calls[i].result = calls[i].cached
              /\ calls[i].req = NoPromise
              /\ ~calls[i].sent
         /\ calls[i].yearGrant = "stale" => calls[i].req # NoPromise

\* One call was served from the cache in the year after a grant without a
\* lifetime, and a later call, made once the clock had reached the buffer
\* window of the one-year expiry, started a refresh.
C4_Witness ==
  \E i, j \in CallIds :
    /\ i < j
    /\ calls[i].kind = "getAccessToken" /\ calls[i].yearGrant = "fresh"
    /\ calls[i].pc = "returned"
    /\ calls[j].kind = "getAccessToken" /\ calls[j].yearGrant = "stale"
    /\ calls[j].sent

\* C5 (as stated): the token forceRefresh() returns comes from a token
\* request issued after forceRefresh() was called.
C5_ForceRefreshAlwaysFresh ==
  \A i \in CallIds :
    (calls[i].kind = "forceRefresh" /\ calls[i].pc = "returned") => calls[i].sent

\* C5 (amended): forceRefresh() is never served from the cache; when no
\* refresh handle is held it issues the token request itself and returns that
\* request's result; when a handle is held it sends nothing and gets the
\* result of the refresh already underway.
C5_ForceRefreshFreshUnlessUnderway ==
  \A i \in CallIds :
    calls[i].kind = "forceRefresh" =>
      /\ calls[i].req # NoPromise
      /\ calls[i].sent <=> ~calls[i].held
      /\ calls[i].pc = "returned" => calls[i].result = reqs[calls[i].req].value

\* A forceRefresh() issued over a valid cached token has returned the token
\* of the request it sent, and another one has joined a refresh underway.
C5_Witness ==
  \E i, j \in CallIds :
    /\ calls[i].kind = "forceRefresh" /\ calls[i].sent
    /\ calls[i].pc = "returned" /\ calls[i].result = TokenOf(calls[i].req)
    /\ calls[i].req >= 2
    /\ calls[j].kind = "forceRefresh" /\ calls[j].held

\* C6 (as stated): the call that triggered a token request answered with a
\* non-2xx status or a malformed body fails, and nothing is cached from it.
C6_BadAnswerFailsCall ==
  \A i \in CallIds :
    (calls[i].sent /\ reqs[calls[i].req].answer \in {"non2xx", "notJson", "noToken"})
      => /\ calls[i].pc # "returned"
         /\ reqs[calls[i].req].state = "rejected"

\* -------------------------------------------------- LaunchDarklyScimClient
\* The access token the client was constructed with (config.ldAccessToken).
StaticAccessToken == "configured-token"

Methods == {"GET", "POST", "DELETE"}

\* What the downstream can answer: a status and a body that is empty, JSON
\* without a detail field, JSON with one, or not JSON at all.
DownstreamStatuses == {200, 201, 204, 401, 404, 409, 500}

BodyKinds == {"empty", "json", "jsonDetail", "garbage"}

\* response.ok
IsOk(status) == status \in 200..299

\* What request() makes of a response: a returned value, an LdScimError with
\* the status and a detail, or a plain Error that carries no status (<<>>).
RequestOutcome(status, body) ==
  IF status = 204
    THEN [kind |-> "value", status |-> <<status>>, detail |-> "", data |-> "undefined"]
  ELSE IF body = "garbage"
    THEN [kind |-> "Error", status |-> <<>>,
          detail |-> "Failed to parse LaunchDarkly response", data |-> "undefined"]
  ELSE IF ~IsOk(status)
    THEN [kind |-> "LdScimError", status |-> <<status>>,
          detail |-> IF body = "jsonDetail" THEN "detail of body"
                     ELSE "HTTP " \o ToString(status),
          data |-> IF body = "empty" THEN "undefined" ELSE "body"]
  ELSE [kind |-> "value", status |-> <<status>>, detail |-> "",
        data |-> IF body = "empty" THEN "undefined" ELSE "body"]

ClientInit == clientReqs = <<>>

\* request() up to `await fetch(...)`: one fetch with the configured token
request(method) ==
  /\ Len(clientReqs) < MaxClientRequests
  /\ clientReqs' = Append(clientReqs,
       [method |-> method, pc |-> "awaiting", sends |-> 1,
        bearer |-> StaticAccessToken, firstStatus |-> <<>>,
        outcome |-> [kind |-> "none", status |-> <<>>, detail |-> "",
                     data |-> "undefined"]])

\* request() resumes with the response and returns or throws
requestResumes(i, status, body) ==
  /\ clientReqs[i].pc = "awaiting"
  /\ clientReqs' = [clientReqs EXCEPT ![i] =
       [@ EXCEPT !.pc = "done", !.firstStatus = <<status>>,
                 !.outcome = RequestOutcome(status, body)]]

ClientNext ==
  \/ \E m \in Methods : request(m) /\ UNCHANGED <<tokenVars, gwVars, trVars, authVars>>
  \/ \E i \in 1..MaxClientRequests, st \in DownstreamStatuses, b \in BodyKinds :
       i <= Len(clientReqs) /\ requestResumes(i, st, b) /\ UNCHANGED <<tokenVars, gwVars, trVars, authVars>>

\* C7 (as stated): a request answered 401 makes the client call
\* forceRefresh() once and send the same request a second time.
C7_RetriesOnceAfter401 ==
  \A i \in 1..Len(clientReqs) :
    (clientReqs[i].pc = "done" /\ clientReqs[i].firstStatus = <<401>>)
      => /\ clientReqs[i].sends = 2
         /\ \E c \in 1..Len(calls) : calls[c].kind = "forceRefresh"

\* ------------------------------------------------------- role translation
\* config.mappings: the role rules, in order, and the default base role
RoleMappings ==
  <<[aliceRole |-> "dev", ldCustomRoles |-> <<"developer", "viewer">>],
    [aliceRole |-> "ops", ldCustomRoles |-> <<"viewer">>]>>

DefaultRole == "reader"

\* config.mappings
Config == [roleMappings |-> RoleMappings, defaultRole |-> DefaultRole]

\* roleMappings.find(m => m.aliceRole === roleValue): the index of the first
\* rule for the value, 0 when there is none
FindRoleMappingIn(roleMappings, roleValue) ==
  LET hits == {k \in 1..Len(roleMappings) : roleMappings[k].aliceRole = roleValue} IN
  IF hits = {} THEN 0 ELSE CHOOSE k \in hits : \A h \in hits : k <= h

FindRoleMapping(roleValue) == FindRoleMappingIn(RoleMappings, roleValue)

InSeq(x, sq) == \E k \in 1..Len(sq) : sq[k] = x

\* Set.add of every element of sq, keeping insertion order
RECURSIVE AddAll(_, _)
AddAll(acc, sq) ==
  IF sq = <<>> THEN acc
  ELSE AddAll(IF InSeq(Head(sq), acc) THEN acc ELSE Append(acc, Head(sq)), Tail(sq))

\* the loop of deriveCustomRoles over the role values, acc being the Set
RECURSIVE DeriveIntoWith(_, _, _)
DeriveIntoWith(acc, aliceRoles, config) ==
  IF aliceRoles = <<>> THEN acc
  ELSE LET k == FindRoleMappingIn(config.roleMappings, Head(aliceRoles)) IN
       DeriveIntoWith(IF k = 0 THEN acc
                      ELSE AddAll(acc, config.roleMappings[k].ldCustomRoles),
                      Tail(aliceRoles), config)

DeriveInto(acc, aliceRoles) == DeriveIntoWith(acc, aliceRoles, Config)

\* deriveCustomRoles(aliceRoles, config)
deriveCustomRolesWith(aliceRoles, config) == DeriveIntoWith(<<>>, aliceRoles, config)

deriveCustomRoles(aliceRoles) == deriveCustomRolesWith(aliceRoles, Config)

\* aliceUser.roles || []: the role values of the payload
extractCustomRolesFromAliceUser(u) == deriveCustomRoles(u.roles)

\* A faulty variant: the base role is set next to the custom roles.
LdExtensionWithBoth(customRoles, config) ==
  [customRole |-> IF Len(customRoles) > 0 THEN <<customRoles>> ELSE <<>>,
   role |-> <<config.defaultRole>>]

\* ldExtension: customRole when roles were derived, the default base role
\* otherwise; <<>> is an absent field
LdExtension(customRoles, config) ==
  [customRole |-> IF Len(customRoles) > 0 THEN <<customRoles>> ELSE <<>>,
   role |-> IF Len(customRoles) > 0 THEN <<>> ELSE <<config.defaultRole>>]

\* A faulty variant: the type of an email is carried as it came.
LdEmailsUntyped(u) ==
  IF Len(u.emails) > 0 THEN u.emails
  ELSE <<[value |-> u.userName, primary |-> TRUE, type |-> "work"]>>

\* emails: the upstream's, each with type || 'work', else one made from
\* userName (the caller has checked that one of the two is there)
LdEmails(u) ==
  IF Len(u.emails) > 0
    THEN [k \in 1..Len(u.emails) |->
            [value |-> u.emails[k].value, primary |-> u.emails[k].primary,
             type |-> IF Truthy(u.emails[k].type) THEN u.emails[k].type
                      ELSE "work"]]
    ELSE <<[value |-> u.userName, primary |-> TRUE, type |-> "work"]>>

\* transformAliceUserToLdUser(aliceUser, config): ok is FALSE when it throws
\* (no emails and no userName), and then there is no payload: emails is <<>>;
\* customRole and role are <<>> when absent from the extension
transformAliceUserToLdUserWith(u, config) ==
  LET ext == LdExtension(deriveCustomRolesWith(u.roles, config), config)
      ok == Len(u.emails) > 0 \/ Truthy(u.userName) IN
  [ok |-> ok,
   userName |-> u.userName,
   emails |-> IF ok THEN LdEmails(u) ELSE <<>>,
   customRole |-> ext.customRole,
   role |-> ext.role,
   externalId |-> IF Truthy(u.externalId) THEN u.externalId ELSE Undefined]

transformAliceUserToLdUser(u) == transformAliceUserToLdUserWith(u, Config)

\* -------------------------------------------------------- correlation store
MappingIds == 1..Len(mappings)

\* SELECT ... WHERE alice_external_id = ?: the first matching row, 0 for none
getUserMappingByExternalId(externalId) ==
  LET hits == {k \in MappingIds : mappings[k].aliceExternalId = externalId} IN
  IF hits = {} THEN 0 ELSE CHOOSE k \in hits : \A h \in hits : k <= h

\* The constraints of table user_mappings an INSERT can violate: alice_id is
\* UNIQUE; alice_external_id carries an index but no constraint.
InsertViolatesConstraint(aliceId, aliceExternalId) ==
  \E k \in MappingIds : mappings[k].aliceId = aliceId

\* createUserMapping: the table after the INSERT
createUserMapping(aliceId, aliceExternalId, ldId, ldUserName) ==
  Append(mappings, [id |-> nextRowId, aliceId |-> aliceId,
                    aliceExternalId |-> aliceExternalId,
                    ldId |-> ldId, ldUserName |-> ldUserName])

\* `aliceUser.externalId || null`
OrNull(x) == IF Truthy(x) THEN x ELSE Null

\* ----------------------------------------------------------- inbound payloads
AliceUser(userName, externalId, roles, emails) ==
  [userName |-> userName, externalId |-> externalId, roles |-> roles, emails |-> emails]

\* The user resources the upstream sends: with and without externalId (absent
\* or empty), roles and emails; the last one has neither userName nor emails.
AliceUsers ==
  {AliceUser("u1", "e1", <<"dev">>, <<>>),
   AliceUser("u1", "e1", <<>>, <<[value |-> "m1", primary |-> TRUE, type |-> Undefined]>>),
   AliceUser("u2", "e1", <<>>, <<>>),
   AliceUser("u1", "", <<>>, <<>>),
   AliceUser("u2", Undefined, <<"dev", "ops">>, <<>>),
   AliceUser("", "e2", <<>>, <<>>)}

\* ---------------------------------------------------------------- downstream
\* The answers with which the downstream fails a call: not found (with a
\* SCIM error body, or with a body that is not JSON), a server error, and a
\* gateway error page that is not JSON.
LdFailures == {<<404, "jsonDetail">>, <<404, "garbage">>, <<500, "json">>,
               <<502, "garbage">>}

\* What a controller gets back from an ldClient call: request()'s outcome,
\* the Resources of a list answer, the user of a single-user answer.
Answer(out, resources, user) == [out |-> out, resources |-> resources, user |-> user]

NoUser == [id |-> 0, userName |-> "", customRole |-> <<>>]

LdIds == 1..Len(ldUsers)

\* the downstream holds a user with this id
LdPresent(id) == id \in LdIds /\ id \notin ldDeleted

LdSnapshot(id) ==
  [id |-> id, userName |-> ldUsers[id].userName, customRole |-> ldUsers[id].customRole]

RECURSIVE LdMatches(_, _)
LdMatches(id, userName) ==
  IF id > Len(ldUsers) THEN <<>>
  ELSE (IF LdPresent(id) /\ ldUsers[id].userName = userName
          THEN <<LdSnapshot(id)>> ELSE <<>>)
         \o LdMatches(id + 1, userName)

Waiting(i, pc) == gw[i].pc = pc /\ gw[i].answer = <<>>

\* GET /Users?filter=userName eq "...": the downstream returns the matches
LdListUsers(i) ==
  /\ Waiting(i, "search")
  /\ gw' = [gw EXCEPT ![i].ldStatus = 200, ![i].answer =
       <<Answer(RequestOutcome(200, "json"),
                LdMatches(1, IF gw[i].user.userName = Undefined THEN "undefined"
                             ELSE gw[i].user.userName),
                NoUser)>>]
  /\ UNCHANGED <<mappings, nextRowId, uuids, ldUsers, ldDeleted>>

\* POST /Users: the downstream refuses a userName it already has (409), else
\* creates the user; its userName is the payload's, or the first email's
LdCreateUser(i) ==
  /\ Waiting(i, "create")
  /\ LET p == gw[i].payload
         name == IF Truthy(p.userName) THEN p.userName ELSE p.emails[1].value IN
     IF \E id \in LdIds : LdPresent(id) /\ ldUsers[id].userName = name
       THEN /\ gw' = [gw EXCEPT ![i].ldStatus = 409, ![i].answer =
                        <<Answer(RequestOutcome(409, "jsonDetail"), <<>>, NoUser)>>]
            /\ UNCHANGED ldUsers
       ELSE /\ ldUsers' = Append(ldUsers,
                  [userName |-> name,
                   customRole |-> IF p.customRole = <<>> THEN <<>> ELSE p.customRole[1]])
            /\ gw' = [gw EXCEPT ![i].ldStatus = 201, ![i].answer =
                        <<Answer(RequestOutcome(201, "json"), <<>>,
                                 [id |-> Len(ldUsers) + 1, userName |-> name,
                                  customRole |-> IF p.customRole = <<>> THEN <<>>
                                                 ELSE p.customRole[1]])>>]
  /\ UNCHANGED <<mappings, nextRowId, uuids, ldDeleted>>

\* PATCH /Users/:id replacing the extension's customRole
LdPatchUser(i) ==
  /\ Waiting(i, "patch")
  /\ LdPresent(gw[i].ldId)
  /\ ldUsers' = [ldUsers EXCEPT ![gw[i].ldId].customRole = gw[i].customRoles]
  /\ gw' = [gw EXCEPT ![i].ldStatus = 200, ![i].answer =
       <<Answer(RequestOutcome(200, "json"), <<>>,
                [id |-> gw[i].ldId, userName |-> ldUsers[gw[i].ldId].userName,
                 customRole |-> gw[i].customRoles])>>]
  /\ UNCHANGED <<mappings, nextRowId, uuids, ldDeleted>>

\* the downstream fails the call, changing nothing
LdFails(i, f) ==
  /\ gw[i].pc \in {"search", "create", "patch", "get", "replace", "patchOps", "delete"}
  /\ gw[i].answer = <<>>
  /\ gw' = [gw EXCEPT ![i].ldStatus = f[1],
                       ![i].answer = <<Answer(RequestOutcome(f[1], f[2]), <<>>, NoUser)>>]
  /\ UNCHANGED <<mappings, nextRowId, uuids, ldUsers, ldDeleted>>

\* ---------------------------------------------------------- users controller
\* handleError: the status of the response for a thrown error
handleError(out) == IF out.kind = "LdScimError" THEN out.status[1] ELSE 500

\* A faulty variant: the lookup before creating never reports a match.
findUserByUserNameNever(a) ==
  IF a.out.kind = "value" \/ (a.out.kind = "LdScimError" /\ a.out.status = <<404>>)
    THEN [kind |-> "none", user |-> NoUser]
  ELSE [kind |-> "throws", user |-> NoUser]

\* findUserByUserName on the list answer: "found" with the first resource,
\* "none" (also on a 404 LdScimError), or "throws"
findUserByUserName(a) ==
  IF a.out.kind = "value"
    THEN IF a.out.data = "undefined" THEN [kind |-> "throws", user |-> NoUser]
         ELSE IF Len(a.resources) > 0 THEN [kind |-> "found", user |-> a.resources[1]]
         ELSE [kind |-> "none", user |-> NoUser]
  ELSE IF a.out.kind = "LdScimError" /\ a.out.status = <<404>>
    THEN [kind |-> "none", user |-> NoUser]
  ELSE [kind |-> "throws", user |-> NoUser]

\* Identifiers are kept apart by the system that issued them: the gateway's
\* uuidv4 values and the downstream's ids.
InternalId(n) == [issuer |-> "gateway", n |-> n]

DownstreamId(n) == [issuer |-> "launchdarkly", n |-> n]

\* `${baseUrl}/Users/${id}`
UsersPath(id) == <<"Users", id>>

\* A faulty variant: the roles are dropped from the upstream resource.
UpstreamRolesNone(customRole) == <<>>

\* `ldExtension?.customRole?.map(role => ({value: role, type: 'launchdarkly'}))
\* || []`: customRole is <<>> when the extension or the list is absent and
\* <<list>> otherwise
UpstreamRoles(customRole) ==
  IF customRole = <<>> THEN <<>>
  ELSE [k \in 1..Len(customRole[1]) |->
          [value |-> customRole[1][k], type |-> "launchdarkly"]]

\* A faulty variant: the resource is returned under the downstream's id.
transformLdResponseLeakingId(ldUser, aliceId) ==
  [id |-> DownstreamId(ldUser.id), userName |-> ldUser.userName,
   roles |-> UpstreamRoles(<<ldUser.customRole>>),
   location |-> UsersPath(DownstreamId(ldUser.id))]

\* transformLdResponseToAliceResponse: the upstream resource of a downstream
\* user, under the internal id
transformLdResponseToAliceResponse(ldUser, aliceId) ==
  [id |-> InternalId(aliceId), userName |-> ldUser.userName,
   roles |-> UpstreamRoles(<<ldUser.customRole>>),
   location |-> UsersPath(InternalId(aliceId))]

\* res.status(s)...: the request is answered and the handler's locals are gone
Respond(q, s) ==
  [q EXCEPT !.pc = "done", !.status = s, !.answer = <<>>, !.ldStatus = 0,
            !.row = <<>>, !.page = <<>>, !.ldUser = <<>>]

\* res.status(s).json(transformLdResponseToAliceResponse(ldUser, aliceId, ...))
RespondWith(q, s, ldUser) ==
  [Respond(q, s) EXCEPT
     !.body = <<transformLdResponseToAliceResponse(ldUser, q.aliceId)>>]

\* res.status(201).header('Location', ...).json(...) of createUser
Created(q) ==
  [RespondWith(q, 201, q.ldUser[1]) EXCEPT
     !.header = <<UsersPath(InternalId(q.aliceId))>>]

\* the handler calls ldClient and suspends at the await; sent records the
\* downstream calls the handler has made
Awaits(q, pc) == [q EXCEPT !.pc = pc, !.answer = <<>>, !.sent = Append(@, pc)]

\* an inbound request as its handler is entered
NewRequest(op) ==
  [op |-> op, user |-> AliceUser("", Undefined, <<>>, <<>>), pc |-> "start",
   answer |-> <<>>, status |-> 0, aliceId |-> 0, ldId |-> 0, customRoles |-> <<>>,
   payload |-> transformAliceUserToLdUser(AliceUser("", Undefined, <<>>, <<>>)),
   held |-> FALSE, wrote |-> FALSE, found |-> <<>>, row |-> <<>>, ops |-> <<>>, filter |-> <<>>,
   startIndex |-> 1, count |-> 100, page |-> <<>>, resources |-> {}, total |-> 0,
   sent |-> <<>>, ldStatus |-> 0, ldUser |-> <<>>, body |-> <<>>, header |-> <<>>,
   changes |-> <<>>]

\* A faulty variant: the externalId lookup before creating is skipped.
AlreadyCorrelatedUnchecked(u) == FALSE

\* `aliceUser.externalId && getUserMappingByExternalId(aliceUser.externalId)`
AlreadyCorrelated(u) ==
  Truthy(u.externalId) /\ getUserMappingByExternalId(u.externalId) # 0

\* createUser up to `await ldClient.findUserByUserName(...)`
createUser(u) ==
  /\ Len(gw) < MaxRequests
  /\ LET q == [NewRequest("create") EXCEPT
                 !.user = u,
                 !.payload = transformAliceUserToLdUser(u),
                 !.held = \E k \in MappingIds :
                            mappings[k].aliceExternalId = u.externalId] IN
     gw' = Append(gw, IF AlreadyCorrelated(u) THEN Respond(q, 409)
                      ELSE Awaits(q, "search"))
  /\ UNCHANGED <<mappings, nextRowId, uuids, ldUsers, ldDeleted>>

\* A faulty variant: the link branch never pushes the roles downstream.
LinkedThenPatchNever(q) == Created(q)

\* after the INSERT of the link branch: the role sync, if there are roles
LinkedThenPatch(q) ==
  LET customRoles == extractCustomRolesFromAliceUser(q.user) IN
  IF Len(customRoles) > 0
    THEN Awaits([q EXCEPT !.customRoles = customRoles], "patch")
    ELSE Created(q)

\* uuidv4() and the INSERT of createUser, in its link or its create branch,
\* and what follows when the INSERT succeeds or throws (a 500 through
\* handleError)
StoreMapping(i, ldUser, branch) ==
  LET aliceId == uuids + 1
      q == [gw[i] EXCEPT !.aliceId = aliceId, !.ldId = ldUser.id, !.wrote = TRUE,
                         !.found = IF branch = "link" THEN <<ldUser.id>> ELSE @,
                         !.ldUser = <<ldUser>>] IN
  /\ uuids' = uuids + 1
  /\ IF InsertViolatesConstraint(aliceId, OrNull(gw[i].user.externalId))
       THEN /\ gw' = [gw EXCEPT ![i] = Respond(@, 500)]
            /\ UNCHANGED <<mappings, nextRowId>>
       ELSE /\ mappings' = createUserMapping(aliceId, OrNull(gw[i].user.externalId),
                                             ldUser.id, ldUser.userName)
            /\ nextRowId' = nextRowId + 1
            /\ gw' = [gw EXCEPT ![i] =
                        IF branch = "link" THEN LinkedThenPatch(q) ELSE Created(q)]

\* createUser resumes with the result of findUserByUserName
createUserAfterSearch(i) ==
  /\ gw[i].op = "create" /\ gw[i].pc = "search" /\ gw[i].answer # <<>>
  /\ LET found == findUserByUserName(gw[i].answer[1]) IN
     CASE found.kind = "throws" ->
            /\ gw' = [gw EXCEPT ![i] = Respond(@, handleError(gw[i].answer[1].out))]
            /\ UNCHANGED <<mappings, nextRowId, uuids>>
       [] found.kind = "found" -> StoreMapping(i, found.user, "link")
       [] OTHER ->
            /\ gw' = [gw EXCEPT ![i] =
                 IF gw[i].payload.ok
                   THEN Awaits([@ EXCEPT !.found = <<0>>], "create")
                   ELSE Respond([@ EXCEPT !.found = <<0>>], 500)]
            /\ UNCHANGED <<mappings, nextRowId, uuids>>
  /\ UNCHANGED <<ldUsers, ldDeleted>>

\* createUser resumes with the result of ldClient.createUser
createUserAfterCreate(i) ==
  /\ gw[i].op = "create" /\ gw[i].pc = "create" /\ gw[i].answer # <<>>
  /\ LET a == gw[i].answer[1] IN
     IF a.out.kind # "value"
       THEN /\ gw' = [gw EXCEPT ![i] = Respond(@, handleError(a.out))]
            /\ UNCHANGED <<mappings, nextRowId, uuids>>
       ELSE StoreMapping(i, a.user, "create")
  /\ UNCHANGED <<ldUsers, ldDeleted>>

\* A faulty variant: a failed role sync takes the record back.
createUserAfterPatchRollsBack(i) ==
  /\ gw[i].op = "create" /\ gw[i].pc = "patch" /\ gw[i].answer # <<>>
  /\ LET a == gw[i].answer[1] IN
     /\ gw' = [gw EXCEPT ![i] =
                 IF a.out.kind # "value" THEN Respond(@, handleError(a.out))
                 ELSE Created(@)]
     /\ mappings' = IF a.out.kind # "value"
                      THEN SelectSeq(mappings, LAMBDA m : m.aliceId # gw[i].aliceId)
                    ELSE mappings
  /\ UNCHANGED <<nextRowId, uuids, ldUsers, ldDeleted>>

\* createUser resumes with the result of ldClient.updateUserCustomRoles
createUserAfterPatch(i) ==
  /\ gw[i].op = "create" /\ gw[i].pc = "patch" /\ gw[i].answer # <<>>
  /\ LET a == gw[i].answer[1] IN
     gw' = [gw EXCEPT ![i] =
              IF a.out.kind # "value" THEN Respond(@, handleError(a.out))
              ELSE Created(@)]
  /\ UNCHANGED <<mappings, nextRowId, uuids, ldUsers, ldDeleted>>

\* The store is empty at first start; the downstream has no user, or one that
\* was provisioned before the gateway existed.
GatewayInit ==
  /\ mappings = <<>>
  /\ nextRowId = 1
  /\ uuids = 0
  /\ ldUsers \in {<<>>, <<[userName |-> "u1", customRole |-> <<>>]>>}
  /\ ldDeleted = {}
  /\ gw = <<>>

GatewayNext ==
  \/ \E u \in AliceUsers : createUser(u) /\ UNCHANGED <<tokenVars, clientVars, trVars, authVars>>
  \/ \E i \in 1..MaxRequests :
       i <= Len(gw) /\ LdListUsers(i) /\ UNCHANGED <<tokenVars, clientVars, trVars, authVars>>
  \/ \E i \in 1..MaxRequests :
       i <= Len(gw) /\ LdCreateUser(i) /\ UNCHANGED <<tokenVars, clientVars, trVars, authVars>>
  \/ \E i \in 1..MaxRequests :
       i <= Len(gw) /\ LdPatchUser(i) /\ UNCHANGED <<tokenVars, clientVars, trVars, authVars>>
  \/ \E i \in 1..MaxRequests, f \in LdFailures :
       i <= Len(gw) /\ LdFails(i, f) /\ UNCHANGED <<tokenVars, clientVars, trVars, authVars>>
  \/ \E i \in 1..MaxRequests :
       i <= Len(gw) /\ createUserAfterSearch(i) /\ UNCHANGED <<tokenVars, clientVars, trVars, authVars>>
  \/ \E i \in 1..MaxRequests :
       i <= Len(gw) /\ createUserAfterCreate(i) /\ UNCHANGED <<tokenVars, clientVars, trVars, authVars>>
  \/ \E i \in 1..MaxRequests :
       i <= Len(gw) /\ createUserAfterPatch(i) /\ UNCHANGED <<tokenVars, clientVars, trVars, authVars>>

\* every inbound request so far has been answered
Idle == \A i \in 1..Len(gw) : gw[i].pc = "done"

\* The gateway when the upstream sends its requests one after the other.
GatewayNextSeq ==
  \/ \E u \in AliceUsers :
       Idle /\ createUser(u) /\ UNCHANGED <<tokenVars, clientVars, trVars, authVars>>
  \/ \E i \in 1..MaxRequests :
       i <= Len(gw) /\ LdListUsers(i) /\ UNCHANGED <<tokenVars, clientVars, trVars, authVars>>
  \/ \E i \in 1..MaxRequests :
       i <= Len(gw) /\ LdCreateUser(i) /\ UNCHANGED <<tokenVars, clientVars, trVars, authVars>>
  \/ \E i \in 1..MaxRequests :
       i <= Len(gw) /\ LdPatchUser(i) /\ UNCHANGED <<tokenVars, clientVars, trVars, authVars>>
  \/ \E i \in 1..MaxRequests, f \in LdFailures :
       i <= Len(gw) /\ LdFails(i, f) /\ UNCHANGED <<tokenVars, clientVars, trVars, authVars>>
  \/ \E i \in 1..MaxRequests :
       i <= Len(gw) /\ createUserAfterSearch(i) /\ UNCHANGED <<tokenVars, clientVars, trVars, authVars>>
  \/ \E i \in 1..MaxRequests :
       i <= Len(gw) /\ createUserAfterCreate(i) /\ UNCHANGED <<tokenVars, clientVars, trVars, authVars>>
  \/ \E i \in 1..MaxRequests :
       i <= Len(gw) /\ createUserAfterPatch(i) /\ UNCHANGED <<tokenVars, clientVars, trVars, authVars>>

\* ------------------------------------------- read, replace, patch, delete, list
\* A faulty variant: the lookup ignores the id and returns the first row.
getUserMappingByAliceIdAnyRow(aliceId) == IF mappings = <<>> THEN 0 ELSE 1

\* SELECT ... WHERE alice_id = ?: the row's position, 0 for none
getUserMappingByAliceId(aliceId) ==
  LET hits == {k \in MappingIds : mappings[k].aliceId = aliceId} IN
  IF hits = {} THEN 0 ELSE CHOOSE k \in hits : \A h \in hits : k <= h

\* A faulty variant: the update also clears the row's externalId.
updateUserMappingClearingExternalId(aliceId, ldUserName) ==
  [k \in MappingIds |->
     IF mappings[k].aliceId = aliceId
       THEN [mappings[k] EXCEPT !.ldUserName = ldUserName, !.aliceExternalId = Null]
       ELSE mappings[k]]

\* A faulty variant: the update inserts a row when none has the id.
updateUserMappingUpserting(aliceId, ldUserName) ==
  IF \E k \in MappingIds : mappings[k].aliceId = aliceId
    THEN [k \in MappingIds |->
            IF mappings[k].aliceId = aliceId
              THEN [mappings[k] EXCEPT !.ldUserName = ldUserName]
              ELSE mappings[k]]
    ELSE Append(mappings, [id |-> nextRowId, aliceId |-> aliceId,
                           aliceExternalId |-> Null, ldId |-> 0,
                           ldUserName |-> ldUserName])

\* the number of rows the UPDATE ... WHERE alice_id = ? matches
RowsAffected(aliceId) ==
  Cardinality({k \in MappingIds : mappings[k].aliceId = aliceId})

\* UPDATE user_mappings SET ld_user_name = ? WHERE alice_id = ?
updateUserMapping(aliceId, ldUserName) ==
  [k \in MappingIds |->
     IF mappings[k].aliceId = aliceId
       THEN [mappings[k] EXCEPT !.ldUserName = ldUserName]
       ELSE mappings[k]]

\* DELETE FROM user_mappings WHERE alice_id = ?
deleteUserMapping(aliceId) == SelectSeq(mappings, LAMBDA m : m.aliceId # aliceId)

\* SELECT ... ORDER BY created_at DESC: the rows, latest first
RECURSIVE Reversed(_)
Reversed(sq) == IF sq = <<>> THEN <<>> ELSE Append(Reversed(Tail(sq)), Head(sq))

getAllUserMappings == Reversed(mappings)

\* The :id of the inbound requests: ids the gateway has issued or will issue
RequestedIds == {1, 2}

\* The bodies of the replace requests: a rename, a change of roles, and a
\* resource with neither userName nor emails
ReplaceUsers == {u \in AliceUsers : u.externalId \in {"e1", "e2"} /\ u.emails = <<>>}

\* The bodies of the patch requests, as their Operations
PatchBodies ==
  {<<[op |-> "add", path |-> "roles", value |-> <<"dev", "ops">>]>>,
   <<[op |-> "replace", path |-> "active", value |-> <<"false">>]>>,
   <<[op |-> "replace", path |-> "userName", value |-> <<"u2">>]>>}

\* A filter parameter, as its whitespace-separated tokens: words and quoted
\* strings. <<>> is the absent (or empty) parameter.
Word(w) == [t |-> "word", v |-> w]

Str(v) == [t |-> "str", v |-> v]

UserNameEq(v) == <<Word("userName"), Word("eq"), Str(v)>>

Filters ==
  {<<>>, UserNameEq("u1"), UserNameEq("u2"), UserNameEq(""),
   <<Word("userName"), Word("sw"), Str("u")>>}

\* The pagination parameters after `parseInt(...) || default`: the defaults,
\* and a second page of one
Pages == {[startIndex |-> 1, count |-> 100], [startIndex |-> 2, count |-> 1]}

\* filter.match(/userName\s+eq\s+"([^"]+)"/i): <<value>> of the first
\* occurrence of userName eq "value" with a non-empty value, <<>> for no match
FilterMatch(filter) ==
  LET hits == {k \in 1..(Len(filter) - 2) :
                 /\ filter[k] = Word("userName")
                 /\ filter[k + 1] = Word("eq")
                 /\ filter[k + 2].t = "str"
                 /\ filter[k + 2].v # ""} IN
  IF hits = {} THEN <<>>
  ELSE <<filter[(CHOOSE k \in hits : \A h \in hits : k <= h) + 2].v>>

\* listUsers' filteredMappings
FilteredMappings(all, filter) ==
  IF filter # <<>> /\ FilterMatch(filter) # <<>>
    THEN SelectSeq(all, LAMBDA m : m.ldUserName = FilterMatch(filter)[1])
    ELSE all

\* Array.prototype.slice(begin, end): the elements at the 0-based positions
\* begin .. end - 1, a negative position counting from the end
JsSlice(sq, begin, end) ==
  LET FromStart(n) == IF n >= 0 THEN (IF n > Len(sq) THEN Len(sq) ELSE n)
                      ELSE IF Len(sq) + n < 0 THEN 0 ELSE Len(sq) + n IN
  SubSeq(sq, FromStart(begin) + 1, FromStart(end))

\* A faulty variant: startIndex is taken as a 0-based position.
SliceZeroBased(sq, startIndex, count) == JsSlice(sq, startIndex, startIndex + count)

\* filteredMappings.slice(startIndex - 1, startIndex - 1 + count)
Slice(sq, startIndex, count) == JsSlice(sq, startIndex - 1, startIndex - 1 + count)

\* A query parameter is <<>> when absent and <<text>> otherwise.
\* parseInt(text): <<n>>, or <<>> for NaN (an absent parameter gives NaN)
ParseInt(param) ==
  IF param = <<>> THEN <<>>
  ELSE CASE param[1] = "0" -> <<0>>
         [] param[1] = "1" -> <<1>>
         [] param[1] = "2" -> <<2>>
         [] param[1] = "3" -> <<3>>
         [] param[1] = "5" -> <<5>>
         [] param[1] = "2x" -> <<2>>
         [] param[1] = "-1" -> <<-1>>
         [] OTHER -> <<>>

\* `parseInt(param) || dflt`: NaN and 0 give the default
ParseIntOr(param, dflt) ==
  IF ParseInt(param) = <<>> \/ ParseInt(param) = <<0>> THEN dflt ELSE ParseInt(param)[1]

\* listUsers' startIndex, count and page for its query parameters
Paginate(filteredMappings, startIndexParam, countParam) ==
  LET startIndex == ParseIntOr(startIndexParam, 1)
      count == ParseIntOr(countParam, 100) IN
  [startIndex |-> startIndex, count |-> count,
   page |-> Slice(filteredMappings, startIndex, count)]

\* patchUser's translation of one role into downstream custom roles
\* (roleMapping?.ldCustomRoles || []), flattened without removing duplicates
RECURSIVE FlatCustomRoles(_)
FlatCustomRoles(roles) ==
  IF roles = <<>> THEN <<>>
  ELSE LET k == FindRoleMapping(Head(roles)) IN
       (IF k = 0 THEN <<>> ELSE RoleMappings[k].ldCustomRoles)
         \o FlatCustomRoles(Tail(roles))

LD_SCIM_EXTENSION_SCHEMA == "urn:ietf:params:scim:schemas:extension:launchdarkly:2.0:User"

\* A faulty variant: the roles operations are passed through untranslated.
LdOperationUntranslated(op) == op

\* patchUser's translation of one operation: an operation on path "roles"
\* becomes one on the extension, with the op it came with
LdOperation(op) ==
  IF op.path = "roles"
    THEN [op |-> op.op, path |-> LD_SCIM_EXTENSION_SCHEMA,
          value |-> FlatCustomRoles(op.value)]
    ELSE op

\* A faulty variant: only the roles operations are sent downstream.
LdOperationsRolesOnly(ops) ==
  LET kept == SelectSeq(ops, LAMBDA op : op.path = "roles") IN
  [k \in 1..Len(kept) |-> LdOperation(kept[k])]

\* patchUser's ldOperations
LdOperations(ops) == [k \in 1..Len(ops) |-> LdOperation(ops[k])]

\* the custom roles of a downstream user after the operations of a PATCH
RECURSIVE PatchedCustomRole(_, _)
PatchedCustomRole(customRole, ops) ==
  IF ops = <<>> THEN customRole
  ELSE PatchedCustomRole(IF Head(ops).path = LD_SCIM_EXTENSION_SCHEMA
                           THEN Head(ops).value
                         ELSE customRole,
                         Tail(ops))

\* the userName of a downstream user after the operations of a PATCH
RECURSIVE PatchedUserName(_, _)
PatchedUserName(userName, ops) ==
  IF ops = <<>> THEN userName
  ELSE PatchedUserName(IF Head(ops).path = "userName" THEN Head(ops).value[1]
                       ELSE userName,
                       Tail(ops))

\* The handler found the correlation record at position k
WithRow(q, k) ==
  [q EXCEPT !.row = <<mappings[k]>>, !.ldId = mappings[k].ldId]

\* getUser up to `await ldClient.getUser(...)`
getUser(id) ==
  /\ Len(gw) < MaxRequests
  /\ LET q == [NewRequest("get") EXCEPT !.aliceId = id]
         k == getUserMappingByAliceId(id) IN
     gw' = Append(gw, IF k = 0 THEN Respond(q, 404) ELSE Awaits(WithRow(q, k), "get"))
  /\ UNCHANGED <<mappings, nextRowId, uuids, ldUsers, ldDeleted>>

\* replaceUser up to `await ldClient.replaceUser(...)`; the translation
\* throws a plain Error for a resource without userName and emails
replaceUser(id, u) ==
  /\ Len(gw) < MaxRequests
  /\ LET q == [NewRequest("replace") EXCEPT
                 !.aliceId = id, !.user = u,
                 !.payload = transformAliceUserToLdUser(u)]
         k == getUserMappingByAliceId(id) IN
     gw' = Append(gw, IF k = 0 THEN Respond(q, 404)
                      ELSE IF ~q.payload.ok THEN Respond(WithRow(q, k), 500)
                      ELSE Awaits(WithRow(q, k), "replace"))
  /\ UNCHANGED <<mappings, nextRowId, uuids, ldUsers, ldDeleted>>

\* patchUser up to `await ldClient.patchUser(...)`
patchUser(id, ops) ==
  /\ Len(gw) < MaxRequests
  /\ LET q == [NewRequest("patch") EXCEPT !.aliceId = id, !.ops = LdOperations(ops)]
         k == getUserMappingByAliceId(id) IN
     gw' = Append(gw, IF k = 0 THEN Respond(q, 404)
                      ELSE Awaits(WithRow(q, k), "patchOps"))
  /\ UNCHANGED <<mappings, nextRowId, uuids, ldUsers, ldDeleted>>

\* A faulty variant: deleting an unknown id is reported as not found.
AlreadyDeletedNotFound(q) == Respond(q, 404)

\* deleteUser without a correlation record: `res.status(204).send()`
AlreadyDeleted(q) == Respond(q, 204)

\* deleteUser up to `await ldClient.deleteUser(...)`
deleteUser(id) ==
  /\ Len(gw) < MaxRequests
  /\ LET q == [NewRequest("delete") EXCEPT !.aliceId = id]
         k == getUserMappingByAliceId(id) IN
     gw' = Append(gw, IF k = 0 THEN AlreadyDeleted(q)
                      ELSE Awaits(WithRow(q, k), "delete"))
  /\ UNCHANGED <<mappings, nextRowId, uuids, ldUsers, ldDeleted>>

\* listUsers up to `await Promise.all(...)`: one getUser per row of the page
listUsers(filter, startIndex, count) ==
  /\ Len(gw) < MaxRequests
  /\ LET filtered == FilteredMappings(getAllUserMappings, filter)
         page == Slice(filtered, startIndex, count) IN
     gw' = Append(gw, [NewRequest("list") EXCEPT
                         !.filter = filter, !.startIndex = startIndex,
                         !.count = count, !.page = page, !.total = Len(filtered),
                         !.pc = "fetch",
                         !.sent = [k \in 1..Len(page) |-> "get"]])
  /\ UNCHANGED <<mappings, nextRowId, uuids, ldUsers, ldDeleted>>

\* GET /Users/:id
LdGetUser(i) ==
  /\ Waiting(i, "get")
  /\ LdPresent(gw[i].ldId)
  /\ gw' = [gw EXCEPT ![i].ldStatus = 200, ![i].answer =
       <<Answer(RequestOutcome(200, "json"), <<>>, LdSnapshot(gw[i].ldId))>>]
  /\ UNCHANGED <<mappings, nextRowId, uuids, ldUsers, ldDeleted>>

\* The GET /Users/:id of a list request: each is answered with the user when
\* the downstream holds it and the call does not fail
LdGetUsers(i, failing) ==
  /\ Waiting(i, "fetch")
  /\ gw' = [gw EXCEPT ![i].ldStatus = 200, ![i].answer =
       <<Answer(RequestOutcome(200, "json"),
                [k \in 1..Len(gw[i].page) |->
                   IF k \notin failing /\ LdPresent(gw[i].page[k].ldId)
                     THEN <<LdSnapshot(gw[i].page[k].ldId)>> ELSE <<>>],
                NoUser)>>]
  /\ UNCHANGED <<mappings, nextRowId, uuids, ldUsers, ldDeleted>>

\* PUT /Users/:id: refused (409) when another user has the userName
LdReplaceUser(i) ==
  /\ Waiting(i, "replace")
  /\ LdPresent(gw[i].ldId)
  /\ LET p == gw[i].payload
         name == IF Truthy(p.userName) THEN p.userName ELSE p.emails[1].value
         customRole == IF p.customRole = <<>> THEN <<>> ELSE p.customRole[1] IN
     IF \E id \in LdIds : id # gw[i].ldId /\ LdPresent(id) /\ ldUsers[id].userName = name
       THEN /\ gw' = [gw EXCEPT ![i].ldStatus = 409, ![i].answer =
                        <<Answer(RequestOutcome(409, "jsonDetail"), <<>>, NoUser)>>]
            /\ UNCHANGED ldUsers
       ELSE /\ ldUsers' = [ldUsers EXCEPT ![gw[i].ldId] =
                             [userName |-> name, customRole |-> customRole]]
            /\ gw' = [gw EXCEPT ![i].ldStatus = 200, ![i].answer =
                        <<Answer(RequestOutcome(200, "json"), <<>>,
                                 [id |-> gw[i].ldId, userName |-> name,
                                  customRole |-> customRole])>>]
  /\ UNCHANGED <<mappings, nextRowId, uuids, ldDeleted>>

\* PATCH /Users/:id with the translated operations
LdPatchOps(i) ==
  /\ Waiting(i, "patchOps")
  /\ LdPresent(gw[i].ldId)
  /\ LET customRole == PatchedCustomRole(ldUsers[gw[i].ldId].customRole, gw[i].ops)
         userName == PatchedUserName(ldUsers[gw[i].ldId].userName, gw[i].ops) IN
     /\ ldUsers' = [ldUsers EXCEPT ![gw[i].ldId] =
                      [userName |-> userName, customRole |-> customRole]]
     /\ gw' = [gw EXCEPT ![i].ldStatus = 200, ![i].answer =
          <<Answer(RequestOutcome(200, "json"), <<>>,
                   [id |-> gw[i].ldId, userName |-> userName,
                    customRole |-> customRole])>>]
  /\ UNCHANGED <<mappings, nextRowId, uuids, ldDeleted>>

\* DELETE /Users/:id: 204, or 404 when the downstream no longer has the user
LdDeleteUser(i) ==
  /\ Waiting(i, "delete")
  /\ IF LdPresent(gw[i].ldId)
       THEN /\ ldDeleted' = ldDeleted \cup {gw[i].ldId}
            /\ gw' = [gw EXCEPT ![i].ldStatus = 204, ![i].answer =
                        <<Answer(RequestOutcome(204, "empty"), <<>>, NoUser)>>]
       ELSE /\ gw' = [gw EXCEPT ![i].ldStatus = 404, ![i].answer =
                        <<Answer(RequestOutcome(404, "jsonDetail"), <<>>, NoUser)>>]
            /\ UNCHANGED ldDeleted
  /\ UNCHANGED <<mappings, nextRowId, uuids, ldUsers>>

\* getUser and patchUser resume with the downstream user, or its error
answerWithUser(i) ==
  /\ \/ gw[i].op = "get" /\ gw[i].pc = "get"
     \/ gw[i].op = "patch" /\ gw[i].pc = "patchOps"
  /\ gw[i].answer # <<>>
  /\ LET a == gw[i].answer[1] IN
     gw' = [gw EXCEPT ![i] =
              IF a.out.kind # "value" THEN Respond(@, handleError(a.out))
              ELSE RespondWith(@, 200, a.user)]
  /\ UNCHANGED <<mappings, nextRowId, uuids, ldUsers, ldDeleted>>

\* replaceUser resumes: the cached userName follows the downstream's
replaceUserAfterReplace(i) ==
  /\ gw[i].op = "replace" /\ gw[i].pc = "replace" /\ gw[i].answer # <<>>
  /\ LET a == gw[i].answer[1] IN
     IF a.out.kind # "value"
       THEN /\ gw' = [gw EXCEPT ![i] = Respond(@, handleError(a.out))]
            /\ UNCHANGED mappings
       ELSE /\ mappings' = IF a.user.userName # gw[i].row[1].ldUserName
                             THEN updateUserMapping(gw[i].aliceId, a.user.userName)
                             ELSE mappings
            /\ gw' = [gw EXCEPT ![i] =
                        RespondWith(
                          IF a.user.userName # gw[i].row[1].ldUserName
                            THEN [@ EXCEPT !.changes = <<RowsAffected(gw[i].aliceId)>>]
                            ELSE @,
                          200, a.user)]
  /\ UNCHANGED <<nextRowId, uuids, ldUsers, ldDeleted>>

\* A faulty variant: every failure of the downstream delete is swallowed.
DeleteErrorSwallowedAlways(out) == TRUE

\* deleteUser's inner catch: `error instanceof LdScimError && error.status === 404`
DeleteErrorSwallowed(out) == out.kind = "LdScimError" /\ out.status = <<404>>

\* deleteUser resumes: the record is removed when the downstream delete
\* returned or threw a 404 LdScimError
deleteUserAfterDelete(i) ==
  /\ gw[i].op = "delete" /\ gw[i].pc = "delete" /\ gw[i].answer # <<>>
  /\ LET a == gw[i].answer[1] IN
     IF a.out.kind = "value" \/ DeleteErrorSwallowed(a.out)
       THEN /\ mappings' = deleteUserMapping(gw[i].aliceId)
            /\ gw' = [gw EXCEPT ![i] = Respond([@ EXCEPT !.wrote = TRUE], 204)]
       ELSE /\ gw' = [gw EXCEPT ![i] = Respond(@, handleError(a.out))]
            /\ UNCHANGED mappings
  /\ UNCHANGED <<nextRowId, uuids, ldUsers, ldDeleted>>

\* A faulty variant: one failed fetch fails the whole list request.
listUsersAfterFetchFailFast(i) ==
  /\ gw[i].op = "list" /\ gw[i].pc = "fetch" /\ gw[i].answer # <<>>
  /\ LET fetched == gw[i].answer[1].resources IN
     gw' = [gw EXCEPT ![i] =
              IF \E k \in 1..Len(fetched) : fetched[k] = <<>>
                THEN Respond(@, 500)
                ELSE Respond([@ EXCEPT !.resources =
                                {transformLdResponseToAliceResponse(
                                   fetched[k][1], gw[i].page[k].aliceId) :
                                   k \in 1..Len(fetched)}],
                             200)]
  /\ UNCHANGED <<mappings, nextRowId, uuids, ldUsers, ldDeleted>>

\* listUsers resumes: the users that could be fetched, under their internal ids
listUsersAfterFetch(i) ==
  /\ gw[i].op = "list" /\ gw[i].pc = "fetch" /\ gw[i].answer # <<>>
  /\ LET fetched == gw[i].answer[1].resources
         kept == {k \in 1..Len(fetched) : fetched[k] # <<>>} IN
     gw' = [gw EXCEPT ![i] =
              Respond([@ EXCEPT !.resources =
                         {transformLdResponseToAliceResponse(
                            fetched[k][1], gw[i].page[k].aliceId) : k \in kept}],
                      200)]
  /\ UNCHANGED <<mappings, nextRowId, uuids, ldUsers, ldDeleted>>

\* The store and the downstream after one user was provisioned
GatewayInitProvisioned ==
  /\ mappings = <<[id |-> 1, aliceId |-> 1, aliceExternalId |-> "e1",
                   ldId |-> 1, ldUserName |-> "u1"]>>
  /\ nextRowId = 2
  /\ uuids = 1
  /\ ldUsers = <<[userName |-> "u1", customRole |-> <<>>]>>
  /\ ldDeleted = {}
  /\ gw = <<>>

\* The gateway with all its user operations, under concurrent requests
OpsNext ==
  \/ GatewayNext
  \/ \E id \in RequestedIds : getUser(id) /\ UNCHANGED <<tokenVars, clientVars, trVars, authVars>>
  \/ \E id \in RequestedIds, u \in ReplaceUsers :
       replaceUser(id, u) /\ UNCHANGED <<tokenVars, clientVars, trVars, authVars>>
  \/ \E id \in RequestedIds, ops \in PatchBodies :
       patchUser(id, ops) /\ UNCHANGED <<tokenVars, clientVars, trVars, authVars>>
  \/ \E id \in RequestedIds : deleteUser(id) /\ UNCHANGED <<tokenVars, clientVars, trVars, authVars>>
  \/ \E f \in Filters, pg \in Pages :
       listUsers(f, pg.startIndex, pg.count) /\ UNCHANGED <<tokenVars, clientVars, trVars, authVars>>
  \/ \E i \in 1..MaxRequests :
       i <= Len(gw) /\ LdGetUser(i) /\ UNCHANGED <<tokenVars, clientVars, trVars, authVars>>
  \/ \E i \in 1..MaxRequests :
       /\ i <= Len(gw)
       /\ \E failing \in SUBSET (1..Len(gw[i].page)) : LdGetUsers(i, failing)
       /\ UNCHANGED <<tokenVars, clientVars, trVars, authVars>>
  \/ \E i \in 1..MaxRequests :
       i <= Len(gw) /\ LdReplaceUser(i) /\ UNCHANGED <<tokenVars, clientVars, trVars, authVars>>
  \/ \E i \in 1..MaxRequests :
       i <= Len(gw) /\ LdPatchOps(i) /\ UNCHANGED <<tokenVars, clientVars, trVars, authVars>>
  \/ \E i \in 1..MaxRequests :
       i <= Len(gw) /\ LdDeleteUser(i) /\ UNCHANGED <<tokenVars, clientVars, trVars, authVars>>
  \/ \E i \in 1..MaxRequests :
       i <= Len(gw) /\ answerWithUser(i) /\ UNCHANGED <<tokenVars, clientVars, trVars, authVars>>
  \/ \E i \in 1..MaxRequests :
       i <= Len(gw) /\ replaceUserAfterReplace(i) /\ UNCHANGED <<tokenVars, clientVars, trVars, authVars>>
  \/ \E i \in 1..MaxRequests :
       i <= Len(gw) /\ deleteUserAfterDelete(i) /\ UNCHANGED <<tokenVars, clientVars, trVars, authVars>>
  \/ \E i \in 1..MaxRequests :
       i <= Len(gw) /\ listUsersAfterFetch(i) /\ UNCHANGED <<tokenVars, clientVars, trVars, authVars>>

\* The same when the upstream sends its requests one after the other
OpsNextSeq ==
  \/ GatewayNextSeq
  \/ \E id \in RequestedIds : Idle /\ getUser(id) /\ UNCHANGED <<tokenVars, clientVars, trVars, authVars>>
  \/ \E id \in RequestedIds, u \in ReplaceUsers :
       Idle /\ replaceUser(id, u) /\ UNCHANGED <<tokenVars, clientVars, trVars, authVars>>
  \/ \E id \in RequestedIds, ops \in PatchBodies :
       Idle /\ patchUser(id, ops) /\ UNCHANGED <<tokenVars, clientVars, trVars, authVars>>
  \/ \E id \in RequestedIds : Idle /\ deleteUser(id) /\ UNCHANGED <<tokenVars, clientVars, trVars, authVars>>
  \/ \E f \in Filters, pg \in Pages :
       Idle /\ listUsers(f, pg.startIndex, pg.count) /\ UNCHANGED <<tokenVars, clientVars, trVars, authVars>>
  \/ \E i \in 1..MaxRequests :
       i <= Len(gw) /\ LdGetUser(i) /\ UNCHANGED <<tokenVars, clientVars, trVars, authVars>>
  \/ \E i \in 1..MaxRequests :
       /\ i <= Len(gw)
       /\ \E failing \in SUBSET (1..Len(gw[i].page)) : LdGetUsers(i, failing)
       /\ UNCHANGED <<tokenVars, clientVars, trVars, authVars>>
  \/ \E i \in 1..MaxRequests :
       i <= Len(gw) /\ LdReplaceUser(i) /\ UNCHANGED <<tokenVars, clientVars, trVars, authVars>>
  \/ \E i \in 1..MaxRequests :
       i <= Len(gw) /\ LdPatchOps(i) /\ UNCHANGED <<tokenVars, clientVars, trVars, authVars>>
  \/ \E i \in 1..MaxRequests :
       i <= Len(gw) /\ LdDeleteUser(i) /\ UNCHANGED <<tokenVars, clientVars, trVars, authVars>>
  \/ \E i \in 1..MaxRequests :
       i <= Len(gw) /\ answerWithUser(i) /\ UNCHANGED <<tokenVars, clientVars, trVars, authVars>>
  \/ \E i \in 1..MaxRequests :
       i <= Len(gw) /\ replaceUserAfterReplace(i) /\ UNCHANGED <<tokenVars, clientVars, trVars, authVars>>
  \/ \E i \in 1..MaxRequests :
       i <= Len(gw) /\ deleteUserAfterDelete(i) /\ UNCHANGED <<tokenVars, clientVars, trVars, authVars>>
  \/ \E i \in 1..MaxRequests :
       i <= Len(gw) /\ listUsersAfterFetch(i) /\ UNCHANGED <<tokenVars, clientVars, trVars, authVars>>

\* --------------------------------------------------------- create properties
Creates == {i \in 1..Len(gw) : gw[i].op = "create"}

RowsWithExternalId(e) == {k \in MappingIds : mappings[k].aliceExternalId = e}

\* C8 (as stated): of two create requests with the same externalId, both
\* begun before either wrote its correlation record, at most one is answered
\* 201, and at most one record holds that externalId.
C8_ConcurrentCreatesOneWins ==
  \A i, j \in Creates :
    (i # j /\ Truthy(gw[i].user.externalId)
       /\ gw[i].user.externalId = gw[j].user.externalId
       /\ ~gw[i].held /\ ~gw[j].held)
      => /\ ~(gw[i].status = 201 /\ gw[j].status = 201)
         /\ Cardinality(RowsWithExternalId(gw[i].user.externalId)) <= 1

\* C9 (as stated): createUserMapping adds no record whose non-null
\* externalId is already held by a record of the store.
C9_NoSecondRecordForExternalId ==
  \A k1, k2 \in MappingIds :
    (k1 < k2 /\ mappings[k2].aliceExternalId # Null)
      => mappings[k1].aliceExternalId # mappings[k2].aliceExternalId

\* C10 (as stated): of two creates carrying the same externalId, sent one
\* after the other, the second is answered 409 once the first was answered
\* 201, and one record holds that externalId.
C10_SecondCreateIs409 ==
  \A i, j \in Creates :
    (i < j /\ gw[i].user.externalId # Undefined
       /\ gw[i].user.externalId = gw[j].user.externalId
       /\ gw[i].status = 201 /\ gw[j].pc = "done")
      => /\ gw[j].status = 409
         /\ Cardinality(RowsWithExternalId(gw[i].user.externalId)) = 1

\* C10 (amended): the same, for a non-empty externalId; the second create
\* writes no record.
C10_SecondCreateIs409WhenNonEmpty ==
  /\ \A i, j \in Creates :
       (i < j /\ Truthy(gw[i].user.externalId)
          /\ gw[i].user.externalId = gw[j].user.externalId
          /\ gw[i].status = 201 /\ gw[j].pc = "done")
         => (gw[j].status = 409 /\ ~gw[j].wrote)
  /\ \A i \in Creates :
       (Truthy(gw[i].user.externalId) /\ gw[i].status = 201)
         => Cardinality(RowsWithExternalId(gw[i].user.externalId)) = 1

\* A create was answered 201 and a later create with the same non-empty
\* externalId 409, with one record for that externalId in the store.
C10_Witness ==
  \E i, j \in Creates :
    /\ i < j
    /\ Truthy(gw[i].user.externalId)
    /\ gw[i].user.externalId = gw[j].user.externalId
    /\ gw[i].status = 201 /\ gw[j].status = 409
    /\ Cardinality(RowsWithExternalId(gw[i].user.externalId)) = 1

\* ------------------------------------------------------ operation properties
Requests == 1..Len(gw)

\* the request that arrives in this step, when one does
Arrives == Len(gw') = Len(gw) + 1

Arrived == gw'[Len(gw')]

\* no correlation record is held for the internal id
NoRecordFor(aliceId) == \A k \in MappingIds : mappings[k].aliceId # aliceId

\* C11 (as stated): a create or replace whose resource has neither a usable
\* email nor a userName is answered 400, a create whose externalId is already
\* correlated is answered 409, and neither sends anything downstream.
C11_LocalErrorsAre400And409 ==
  \A i \in Requests :
    gw[i].pc = "done" =>
      /\ (gw[i].op = "create" /\ ~gw[i].payload.ok
            /\ ~(gw[i].held /\ Truthy(gw[i].user.externalId)))
           => (gw[i].status = 400 /\ gw[i].sent = <<>>)
      /\ (gw[i].op = "replace" /\ ~gw[i].payload.ok /\ gw[i].ldId # 0)
           => (gw[i].status = 400 /\ gw[i].sent = <<>>)
      /\ (gw[i].op = "create" /\ gw[i].held /\ Truthy(gw[i].user.externalId))
           => (gw[i].status = 409 /\ gw[i].sent = <<>>)

\* C12 (as stated): no two correlation records reference the same
\* downstream id.
C12_OneRecordPerDownstreamUser ==
  \A k1, k2 \in MappingIds :
    k1 # k2 => mappings[k1].ldId # mappings[k2].ldId

\* a create whose downstream search found a user
Linked(i) == gw[i].op = "create" /\ gw[i].found # <<>> /\ gw[i].found # <<0>>

\* a create whose downstream search found nothing
NotFoundDownstream(i) == gw[i].op = "create" /\ gw[i].found = <<0>>

\* the correlation record written by request i points at downstream id ldId
RecordOf(i, ldId) ==
  \E k \in MappingIds : mappings[k].aliceId = gw[i].aliceId /\ mappings[k].ldId = ldId

\* what the create branch does: translate, create downstream, then record
CreatesThenRecords(i) ==
  /\ "create" \in {gw[i].sent[k] : k \in 1..Len(gw[i].sent)}
       => (NotFoundDownstream(i) /\ gw[i].payload.ok)
  /\ (NotFoundDownstream(i) /\ gw[i].wrote)
       => /\ gw[i].sent = <<"search", "create">>
          /\ LdPresent(gw[i].ldId)
          /\ RecordOf(i, gw[i].ldId)

\* C13 (as stated): a create whose search finds a user sends no downstream
\* create, records the found id and pushes a role sync; only a create whose
\* search finds nothing translates, creates downstream and then records.
C13_LinkPushesRoleSync ==
  \A i \in Requests :
    /\ Linked(i) =>
         /\ RecordOf(i, gw[i].found[1])
         /\ gw[i].sent \in {<<"search", "patch">>}
         /\ gw[i].customRoles = extractCustomRolesFromAliceUser(gw[i].user)
    /\ CreatesThenRecords(i)

\* C13 (amended): the same, the role sync being pushed exactly when the
\* roles of the request translate to at least one downstream custom role.
C13_LinkPushesRoleSyncWhenRoles ==
  \A i \in Requests :
    /\ Linked(i) =>
         /\ RecordOf(i, gw[i].found[1])
         /\ gw[i].sent =
              IF Len(extractCustomRolesFromAliceUser(gw[i].user)) > 0
                THEN <<"search", "patch">> ELSE <<"search">>
         /\ Len(gw[i].sent) = 2
              => gw[i].customRoles = extractCustomRolesFromAliceUser(gw[i].user)
    /\ CreatesThenRecords(i)

\* One create linked a found user and pushed its roles, another found
\* nothing and created the downstream user; both were answered 201.
C13_Witness ==
  \E i, j \in Requests :
    /\ Linked(i) /\ gw[i].status = 201 /\ gw[i].sent = <<"search", "patch">>
    /\ RecordOf(i, gw[i].found[1])
    /\ NotFoundDownstream(j) /\ gw[j].status = 201
    /\ gw[j].sent = <<"search", "create">> /\ RecordOf(j, gw[j].ldId)

\* C14 (as stated): when the downstream create fails, the response carries
\* the status the downstream reported and no correlation record is written.
C14_CreateFailureKeepsStatus ==
  [][\A i \in Requests :
       (/\ gw[i].op = "create" /\ gw[i].pc = "create" /\ gw[i].answer # <<>>
        /\ ~IsOk(gw[i].ldStatus)
        /\ gw'[i].pc = "done")
         => (gw'[i].status = gw[i].ldStatus /\ mappings' = mappings)]_vars

\* C15: a read, replace or patch on an internal id without correlation
\* record is answered 404 at once, sends nothing downstream and leaves the
\* store unchanged.
C15_MissingRecordIs404 ==
  [][(Arrives /\ Arrived.op \in {"get", "replace", "patch"}
        /\ NoRecordFor(Arrived.aliceId))
       => /\ Arrived.pc = "done"
          /\ Arrived.status = 404
          /\ Arrived.sent = <<>>
          /\ mappings' = mappings]_vars

\* A read and a patch on ids without record were answered 404 with nothing
\* sent downstream, the store holding a record of another user.
C15_Witness ==
  \E i, j \in Requests :
    /\ gw[i].op = "get" /\ gw[j].op = "patch"
    /\ gw[i].status = 404 /\ gw[j].status = 404
    /\ gw[i].sent = <<>> /\ gw[j].sent = <<>>
    /\ NoRecordFor(gw[i].aliceId) /\ NoRecordFor(gw[j].aliceId)
    /\ mappings # <<>>

\* C16: a delete on an internal id without correlation record is answered
\* 204 at once, sends nothing downstream and leaves the store unchanged.
C16_DeleteOfMissingIs204 ==
  [][(Arrives /\ Arrived.op = "delete" /\ NoRecordFor(Arrived.aliceId))
       => /\ Arrived.pc = "done"
          /\ Arrived.status = 204
          /\ Arrived.sent = <<>>
          /\ mappings' = mappings]_vars

\* A delete of an id without record was answered 204 with nothing sent, the
\* store holding a record of another user.
C16_Witness ==
  \E i \in Requests :
    /\ gw[i].op = "delete" /\ gw[i].status = 204 /\ gw[i].sent = <<>>
    /\ NoRecordFor(gw[i].aliceId)
    /\ mappings # <<>>

\* delete request i of internal id a failed
FailedDelete(i) == gw[i].op = "delete" /\ gw[i].pc = "done" /\ ~IsOk(gw[i].status)

\* C17: a downstream delete that fails with anything but not-found fails the
\* request and leaves the store as it was; a later delete of the same id
\* finds the record again (it sends the downstream delete), and a delete
\* whose downstream delete succeeds removes the record and is answered 204.
C17_FailedDeleteKeepsRecord ==
  /\ [][\A i \in Requests :
          (gw[i].op = "delete" /\ gw[i].pc = "delete" /\ gw[i].answer # <<>>
             /\ gw'[i].pc = "done")
            => /\ (~IsOk(gw[i].ldStatus) /\ gw[i].ldStatus # 404)
                    => (~IsOk(gw'[i].status) /\ mappings' = mappings)
               /\ IsOk(gw[i].ldStatus)
                    => /\ gw'[i].status = 204
                       /\ \A k \in 1..Len(mappings') :
                            mappings'[k].aliceId # gw[i].aliceId]_vars
  /\ [](\A i, j \in Requests :
          (/\ i < j /\ FailedDelete(i) /\ gw[j].op = "delete"
           /\ gw[j].aliceId = gw[i].aliceId
           /\ \A m \in Requests :
                (i < m /\ m < j) => ~(gw[m].op = "delete" /\ gw[m].status = 204))
            => gw[j].sent = <<"delete">>)

\* A delete failed on a downstream server error, and the retry of the same
\* delete found the record, was answered 204 and removed it.
C17_Witness ==
  \E i, j \in Requests :
    /\ i < j /\ gw[i].op = "delete" /\ gw[i].status = 500
    /\ gw[j].op = "delete" /\ gw[j].aliceId = gw[i].aliceId
    /\ gw[j].sent = <<"delete">> /\ gw[j].status = 204
    /\ NoRecordFor(gw[j].aliceId)

\* C18 (as stated): a record disappears only in a step in which a delete of
\* its internal id resumes on a downstream answer of success or not-found;
\* and whenever the downstream answers not-found the delete is answered 204
\* and the record is removed.
C18_RemovedOnlyAfterConfirmation ==
  [][/\ \A k \in MappingIds :
          (\A n \in 1..Len(mappings') : mappings'[n].aliceId # mappings[k].aliceId)
            => \E i \in Requests :
                 /\ gw[i].op = "delete" /\ gw[i].pc = "delete"
                 /\ gw[i].aliceId = mappings[k].aliceId
                 /\ gw[i].ldStatus \in {204, 404}
                 /\ gw'[i].pc = "done"
     /\ \A i \in Requests :
          (gw[i].op = "delete" /\ gw[i].pc = "delete" /\ gw[i].ldStatus = 404
             /\ gw'[i].pc = "done")
            => /\ gw'[i].status = 204
               /\ \A n \in 1..Len(mappings') : mappings'[n].aliceId # gw[i].aliceId]_vars

\* the rows whose cached downstream userName is v
RowsNamed(v) == {k \in MappingIds : mappings[k].ldUserName = v}

\* C19 (as stated): a list request filtered by userName eq "v" counts and
\* fetches the records whose cached userName is v, and no other.
C19_FilterSelectsByCachedUserName ==
  [][\A v \in {"u1", "u2", ""} :
       (Arrives /\ Arrived.op = "list" /\ Arrived.filter = UserNameEq(v))
         => /\ Arrived.total = Cardinality(RowsNamed(v))
            /\ \A n \in 1..Len(Arrived.page) : Arrived.page[n].ldUserName = v]_vars

\* C20 (as stated): a list request whose filter is present but not of the
\* form userName eq "value" matches nothing.
C20_UnrecognizedFilterMatchesNothing ==
  [][(Arrives /\ Arrived.op = "list" /\ Arrived.filter # <<>>
        /\ \A v \in {"u1", "u2", ""} : Arrived.filter # UserNameEq(v))
       => (Arrived.total = 0 /\ Arrived.page = <<>>)]_vars

\* ---------------------------------------------- list, cache and response shape
\* a handler resumes in this step and answers request i
Answers(i) == gw[i].pc # "done" /\ gw[i].answer # <<>> /\ gw'[i].pc = "done"

\* the internal ids of the resources a list request returned
ReturnedIds(q) == {r.id.n : r \in q.resources}

\* C21: in a list request a record whose downstream fetch failed is dropped,
\* every record of the page whose fetch succeeded is returned, and the
\* request is answered 200.
C21_FetchFailureIsIsolated ==
  [][\A i \in Requests :
       (gw[i].op = "list" /\ Answers(i))
         => /\ gw'[i].status = 200
            /\ ReturnedIds(gw'[i]) =
                 {gw[i].page[k].aliceId : k \in
                    {n \in 1..Len(gw[i].page) : gw[i].answer[1].resources[n] # <<>>}}]_vars

\* A list request over two records was answered 200 with one of them, the
\* fetch of the other having failed.
C21_Witness ==
  \E i \in Requests :
    /\ gw[i].op = "list" /\ gw[i].pc = "done" /\ gw[i].status = 200
    /\ gw[i].total = 2 /\ Len(gw[i].sent) = 2
    /\ Cardinality(gw[i].resources) = 1

\* the correlation record of internal id a in store m, as a set (empty when
\* there is none)
RecordsOf(m, a) == {m[k] : k \in {n \in 1..Len(m) : m[n].aliceId = a}}

\* C22 (as stated): when a replace succeeds, the record's cached userName is
\* the userName the downstream PUT returned and its other fields are kept.
C22_ReplaceSyncsCachedUserName ==
  [][\A i \in Requests :
       (gw[i].op = "replace" /\ Answers(i) /\ gw'[i].status = 200)
         => \A r \in RecordsOf(mappings, gw[i].aliceId) :
              RecordsOf(mappings', gw[i].aliceId) =
                {[r EXCEPT !.ldUserName = gw[i].answer[1].user.userName]}]_vars

\* C23 (as stated): when a read or a patch succeeds, the record's cached
\* userName is the userName of the downstream record it received.
C23_ReadAndPatchSyncCachedUserName ==
  [][\A i \in Requests :
       (gw[i].op \in {"get", "patch"} /\ Answers(i) /\ gw'[i].status = 200)
         => \A r \in RecordsOf(mappings', gw[i].aliceId) :
              r.ldUserName = gw[i].answer[1].user.userName]_vars

\* C24: the resource of every success response carries the internal id of
\* the request's correlation record, never an id issued by the downstream;
\* meta.location and the Location header of a create are built from it.
C24_ResponsesCarryInternalId ==
  \A i \in Requests :
    gw[i].pc = "done" =>
      /\ (gw[i].op \in {"create", "get", "replace", "patch"} /\ IsOk(gw[i].status))
           => /\ gw[i].body # <<>>
              /\ gw[i].body[1].id = InternalId(gw[i].aliceId)
              /\ gw[i].body[1].location = UsersPath(gw[i].body[1].id)
      /\ (gw[i].op = "create" /\ IsOk(gw[i].status))
           => gw[i].header = <<UsersPath(InternalId(gw[i].aliceId))>>
      /\ \A r \in gw[i].resources :
           /\ r.id.issuer = "gateway"
           /\ r.location = UsersPath(r.id)

\* A create linked downstream user 1 under internal id 2 and was answered 201
\* with that internal id in body and Location header, and a list request
\* returned a resource.
C24_Witness ==
  \E i, j \in Requests :
    /\ gw[i].op = "create" /\ gw[i].status = 201
    /\ gw[i].aliceId # gw[i].ldId
    /\ gw[i].body # <<>> /\ gw[i].body[1].id = InternalId(gw[i].aliceId)
    /\ gw[i].header = <<UsersPath(InternalId(gw[i].aliceId))>>
    /\ gw[j].op = "list" /\ gw[j].pc = "done" /\ gw[j].resources # {}

\* ------------------------------------------------------- bearerTokenAuth
\* app.use('/scim/v2', bearerTokenAuth(config.gatewayBearerToken), scimRouter)
\* A header is <<>> when absent and <<pieces>> otherwise, the pieces being
\* the parts of its value between single spaces (authHeader.split(' ')).
GatewayBearerToken == "good"

AuthorizationHeaders ==
  {<<>>,
   << <<"">> >>,
   << <<"Basic", "good">> >>,
   << <<"good">> >>,
   << <<"Bearer">> >>,
   << <<"Bearer", "", "good">> >>,
   << <<"Bearer", "bad">> >>,
   << <<"Bearer", "good">> >>,
   << <<"BEARER", "good", "x">> >>}

\* String.prototype.toLowerCase on the schemes above
ToLowerCase(str) ==
  CASE str = "Bearer" -> "bearer"
    [] str = "BEARER" -> "bearer"
    [] str = "Basic" -> "basic"
    [] OTHER -> str

\* const [scheme, token] = pieces: the k-th piece, undefined past the end
Piece(pieces, k) == IF k <= Len(pieces) THEN pieces[k] ELSE Undefined

Unauthorized == 401

CallsNext == 0

\* A faulty variant: any bearer token is accepted.
bearerTokenAuthAnyToken(authHeader) ==
  IF authHeader = <<>> \/ authHeader = << <<"">> >> THEN Unauthorized
  ELSE IF ToLowerCase(Piece(authHeader[1], 1)) # "bearer" THEN Unauthorized
  ELSE CallsNext

\* The middleware's verdict on a header: 401, or next()
bearerTokenAuth(authHeader) ==
  IF authHeader = <<>> \/ authHeader = << <<"">> >> THEN Unauthorized
  ELSE LET scheme == Piece(authHeader[1], 1)
           token == Piece(authHeader[1], 2) IN
       IF ToLowerCase(scheme) # "bearer" THEN Unauthorized
       ELSE IF ~Truthy(token) \/ token # GatewayBearerToken THEN Unauthorized
       ELSE CallsNext

AuthInit == authz = <<>>

\* a request the middleware answers itself: 401, and no controller runs
rejected(authHeader) ==
  /\ bearerTokenAuth(authHeader) = Unauthorized
  /\ Len(gw) < MaxRequests
  /\ gw' = Append(gw, Respond(NewRequest("none"), 401))
  /\ authz' = Append(authz, authHeader)
  /\ UNCHANGED <<mappings, nextRowId, uuids, ldUsers, ldDeleted>>

\* a request the middleware hands to the router
passed(authHeader) ==
  /\ bearerTokenAuth(authHeader) = CallsNext
  /\ authz' = Append(authz, authHeader)

\* The requests the upstream sends in this setting
AuthCreateUser == AliceUser("u2", "e2", <<"dev">>, <<>>)

AuthReplaceUser == AliceUser("u2", "e1", <<>>, <<>>)

AuthPatchBody == <<[op |-> "add", path |-> "roles", value |-> <<"dev", "ops">>]>>

\* The steps of the controllers after their first await
HandlerSteps ==
  \/ \E i \in 1..MaxRequests : i <= Len(gw) /\ LdListUsers(i)
       /\ UNCHANGED <<tokenVars, clientVars, trVars, authVars>>
  \/ \E i \in 1..MaxRequests : i <= Len(gw) /\ LdCreateUser(i)
       /\ UNCHANGED <<tokenVars, clientVars, trVars, authVars>>
  \/ \E i \in 1..MaxRequests : i <= Len(gw) /\ LdPatchUser(i)
       /\ UNCHANGED <<tokenVars, clientVars, trVars, authVars>>
  \/ \E i \in 1..MaxRequests, f \in LdFailures : i <= Len(gw) /\ LdFails(i, f)
       /\ UNCHANGED <<tokenVars, clientVars, trVars, authVars>>
  \/ \E i \in 1..MaxRequests : i <= Len(gw) /\ createUserAfterSearch(i)
       /\ UNCHANGED <<tokenVars, clientVars, trVars, authVars>>
  \/ \E i \in 1..MaxRequests : i <= Len(gw) /\ createUserAfterCreate(i)
       /\ UNCHANGED <<tokenVars, clientVars, trVars, authVars>>
  \/ \E i \in 1..MaxRequests : i <= Len(gw) /\ createUserAfterPatch(i)
       /\ UNCHANGED <<tokenVars, clientVars, trVars, authVars>>
  \/ \E i \in 1..MaxRequests : i <= Len(gw) /\ LdGetUser(i)
       /\ UNCHANGED <<tokenVars, clientVars, trVars, authVars>>
  \/ \E i \in 1..MaxRequests :
       i <= Len(gw) /\ \E failing \in SUBSET (1..Len(gw[i].page)) : LdGetUsers(i, failing)
       /\ UNCHANGED <<tokenVars, clientVars, trVars, authVars>>
  \/ \E i \in 1..MaxRequests : i <= Len(gw) /\ LdReplaceUser(i)
       /\ UNCHANGED <<tokenVars, clientVars, trVars, authVars>>
  \/ \E i \in 1..MaxRequests : i <= Len(gw) /\ LdPatchOps(i)
       /\ UNCHANGED <<tokenVars, clientVars, trVars, authVars>>
  \/ \E i \in 1..MaxRequests : i <= Len(gw) /\ LdDeleteUser(i)
       /\ UNCHANGED <<tokenVars, clientVars, trVars, authVars>>
  \/ \E i \in 1..MaxRequests : i <= Len(gw) /\ answerWithUser(i)
       /\ UNCHANGED <<tokenVars, clientVars, trVars, authVars>>
  \/ \E i \in 1..MaxRequests : i <= Len(gw) /\ replaceUserAfterReplace(i)
       /\ UNCHANGED <<tokenVars, clientVars, trVars, authVars>>
  \/ \E i \in 1..MaxRequests : i <= Len(gw) /\ deleteUserAfterDelete(i)
       /\ UNCHANGED <<tokenVars, clientVars, trVars, authVars>>
  \/ \E i \in 1..MaxRequests : i <= Len(gw) /\ listUsersAfterFetch(i)
       /\ UNCHANGED <<tokenVars, clientVars, trVars, authVars>>

\* The gateway behind its middleware, the upstream sending its requests one
\* after the other
AuthNext ==
  \/ \E h \in AuthorizationHeaders :
       Idle /\ rejected(h) /\ UNCHANGED <<tokenVars, clientVars, trVars>>
  \/ \E h \in AuthorizationHeaders :
       Idle /\ passed(h) /\ createUser(AuthCreateUser)
         /\ UNCHANGED <<tokenVars, clientVars, trVars>>
  \/ \E h \in AuthorizationHeaders :
       Idle /\ passed(h) /\ getUser(1) /\ UNCHANGED <<tokenVars, clientVars, trVars>>
  \/ \E h \in AuthorizationHeaders :
       Idle /\ passed(h) /\ replaceUser(1, AuthReplaceUser)
         /\ UNCHANGED <<tokenVars, clientVars, trVars>>
  \/ \E h \in AuthorizationHeaders :
       Idle /\ passed(h) /\ patchUser(1, AuthPatchBody)
         /\ UNCHANGED <<tokenVars, clientVars, trVars>>
  \/ \E h \in AuthorizationHeaders :
       Idle /\ passed(h) /\ deleteUser(1) /\ UNCHANGED <<tokenVars, clientVars, trVars>>
  \/ \E h \in AuthorizationHeaders :
       Idle /\ passed(h) /\ listUsers(<<>>, 1, 100)
         /\ UNCHANGED <<tokenVars, clientVars, trVars>>
  \/ HandlerSteps

\* the header names the Bearer scheme, in any case of letters
UsesBearerScheme(h) ==
  h # <<>> /\ h[1][1] \in {"Bearer", "bearer", "BEARER"}

\* the token of a header is the piece that follows its scheme
CarriesGatewayToken(h) ==
  h # <<>> /\ Len(h[1]) >= 2 /\ h[1][2] = GatewayBearerToken

MappingTables ==
  {<<>>,
   RoleMappings,
   <<[aliceRole |-> "qa", ldCustomRoles |-> <<>>],
     [aliceRole |-> "dev", ldCustomRoles |-> <<"developer">>]>>,
   <<[aliceRole |-> "dev", ldCustomRoles |-> <<>>],
     [aliceRole |-> "dev", ldCustomRoles |-> <<"developer">>]>>}

Configs ==
  {[roleMappings |-> t, defaultRole |-> d] :
     t \in MappingTables, d \in {"reader", "no_access"}}

RoleLists ==
  {<<>>, <<"dev">>, <<"qa">>, <<"x">>, <<"dev", "ops">>, <<"ops", "dev">>,
   <<"qa", "dev">>, <<"dev", "dev">>}

EmailLists ==
  {<<>>,
   <<[value |-> "m1", primary |-> TRUE, type |-> Undefined]>>,
   <<[value |-> "m1", primary |-> FALSE, type |-> "home"],
     [value |-> "m2", primary |-> TRUE, type |-> ""]>>}

TranslatedUsers ==
  {AliceUser(n, "e1", r, e) : n \in {"u1", ""}, r \in RoleLists, e \in EmailLists}

\* ldUser[LD_SCIM_EXTENSION_SCHEMA]?.customRole: <<>> when absent
CustomRoleFields ==
  {<<>>, << <<>> >>, << <<"developer">> >>, << <<"developer", "viewer">> >>,
   << <<"viewer", "developer">> >>, << <<"viewer", "viewer">> >>}

\* The Operations of patch requests: the three ops on path "roles", and
\* operations on other paths
PatchOperations ==
  PatchBodies \cup
  {<<[op |-> "replace", path |-> "roles", value |-> <<"dev">>]>>,
   <<[op |-> "remove", path |-> "roles", value |-> <<"ops">>]>>,
   <<[op |-> "replace", path |-> "roles", value |-> <<"x">>],
     [op |-> "replace", path |-> "active", value |-> <<"true">>]>>,
   <<[op |-> "replace", path |-> "active", value |-> <<"false">>],
     [op |-> "add", path |-> Undefined, value |-> <<"nickName", "n">>],
     [op |-> "replace", path |-> "roles", value |-> <<"dev", "dev">>],
     [op |-> "remove", path |-> "name.givenName", value |-> <<>>]>>}

TrInit == tr = [fn |-> "none", input |-> <<>>, config |-> Config, output |-> <<>>]

toDownstream(aliceUser, config) ==
  tr' = [fn |-> "transformAliceUserToLdUser", input |-> aliceUser, config |-> config,
         output |-> transformAliceUserToLdUserWith(aliceUser, config)]

toUpstreamRoles(customRole) ==
  tr' = [fn |-> "transformLdResponseToAliceResponse", input |-> customRole,
         config |-> Config, output |-> UpstreamRoles(customRole)]

toLdOperations(ops) ==
  tr' = [fn |-> "patchUser", input |-> ops, config |-> Config,
         output |-> LdOperations(ops)]

\* the query parameters startIndex and count of list requests
QueryNumbers ==
  {<<>>, <<"0">>, <<"1">>, <<"2">>, <<"3">>, <<"5">>, <<"2x">>, <<"-1">>, <<"abc">>}

\* filtered correlation sequences, by the internal ids of their records
FilteredSequences == {<<>>, <<1>>, <<3, 1, 2>>, <<4, 3, 1, 2>>}

toPage(filteredMappings, startIndexParam, countParam) ==
  tr' = [fn |-> "listUsers",
         input |-> [rows |-> filteredMappings, startIndex |-> startIndexParam,
                    count |-> countParam],
         config |-> Config,
         output |-> Paginate(filteredMappings, startIndexParam, countParam)]

\* each behaviour applies one translation to one input
TrNext ==
  \/ \E rows \in FilteredSequences, si \in QueryNumbers, c \in QueryNumbers :
       tr.fn = "none" /\ toPage(rows, si, c)
         /\ UNCHANGED <<tokenVars, clientVars, gwVars, authVars>>
  \/ \E u \in TranslatedUsers, c \in Configs :
       tr.fn = "none" /\ toDownstream(u, c)
         /\ UNCHANGED <<tokenVars, clientVars, gwVars, authVars>>
  \/ \E cr \in CustomRoleFields :
       tr.fn = "none" /\ toUpstreamRoles(cr)
         /\ UNCHANGED <<tokenVars, clientVars, gwVars, authVars>>
  \/ \E ops \in PatchOperations :
       tr.fn = "none" /\ toLdOperations(ops)
         /\ UNCHANGED <<tokenVars, clientVars, gwVars, authVars>>

Translated == tr.fn = "transformAliceUserToLdUser" /\ tr.output.ok

\* some role value has a rule in the table
MatchesRule(R, table) ==
  \E k \in 1..Len(R), j \in 1..Len(table) : table[j].aliceRole = R[k]

\* for some role value, the first rule for it names at least one custom role
MatchesRuleWithRoles(R, table) ==
  \E k \in 1..Len(R), j \in 1..Len(table) :
    /\ table[j].aliceRole = R[k]
    /\ \A h \in 1..(j - 1) : table[h].aliceRole # R[k]
    /\ table[j].ldCustomRoles # <<>>

HasCustomRoles(payload) == payload.customRole # <<>> /\ payload.customRole[1] # <<>>

\* C25 (as stated): the payload has a non-empty customRole list if and only
\* if some value of the role list matches a configured rule; otherwise it has
\* the default base role and no customRole; it never has both.
C25_CustomRolesIffRuleMatches ==
  Translated =>
    LET R == tr.input.roles
        table == tr.config.roleMappings IN
    /\ HasCustomRoles(tr.output) <=> MatchesRule(R, table)
    /\ ~MatchesRule(R, table)
         => tr.output.role = <<tr.config.defaultRole>> /\ tr.output.customRole = <<>>
    /\ ~(tr.output.role # <<>> /\ tr.output.customRole # <<>>)

\* C25 (amended): the payload has a non-empty customRole list if and only if,
\* for some value of the role list, the first rule configured for that value
\* names at least one custom role; otherwise it has the default base role and
\* no customRole; it never has both.
C25_CustomRolesIffRuleWithRolesMatches ==
  Translated =>
    LET R == tr.input.roles
        table == tr.config.roleMappings IN
    /\ HasCustomRoles(tr.output) <=> MatchesRuleWithRoles(R, table)
    /\ ~MatchesRuleWithRoles(R, table)
         => tr.output.role = <<tr.config.defaultRole>> /\ tr.output.customRole = <<>>
    /\ ~(tr.output.role # <<>> /\ tr.output.customRole # <<>>)

\* a role value whose rule names no custom role was translated: default role
C25_Witness ==
  /\ Translated
  /\ MatchesRule(tr.input.roles, tr.config.roleMappings)
  /\ ~MatchesRuleWithRoles(tr.input.roles, tr.config.roleMappings)
  /\ tr.output.role = <<"no_access">>

\* C26: a translation that succeeds carries at least one email: the upstream
\* emails in order, each with its value and primary flag and with its type or
\* "work"; without upstream emails, one primary "work" email made from
\* userName; with neither, the translation fails and there is no payload.
C26_AlwaysAnEmail ==
  tr.fn = "transformAliceUserToLdUser" =>
    LET u == tr.input
        out == tr.output IN
    /\ out.ok => Len(out.emails) >= 1
    /\ Len(u.emails) > 0 =>
         /\ out.ok
         /\ Len(out.emails) = Len(u.emails)
         /\ \A k \in 1..Len(u.emails) :
              /\ out.emails[k].value = u.emails[k].value
              /\ out.emails[k].primary = u.emails[k].primary
              /\ out.emails[k].type =
                   (IF u.emails[k].type \in {Undefined, ""} THEN "work"
                    ELSE u.emails[k].type)
    /\ (u.emails = <<>> /\ u.userName # "") =>
         /\ out.ok
         /\ out.emails = <<[value |-> u.userName, primary |-> TRUE, type |-> "work"]>>
    /\ (u.emails = <<>> /\ u.userName = "") => ~out.ok /\ out.emails = <<>>

\* two emails were carried, one of them given the type "work"
C26_Witness ==
  /\ Translated
  /\ Len(tr.input.emails) = 2
  /\ tr.input.emails[2].type = ""
  /\ tr.output.emails[2].type = "work"
  /\ tr.output.emails[1].type = "home"

\* C27: the upstream resource has one role entry per element of the
\* downstream custom-role list (none when the list is absent), in the same
\* order, each with that element as value and the type "launchdarkly".
C27_RolesMirrorCustomRoles ==
  tr.fn = "transformLdResponseToAliceResponse" =>
    LET L == IF tr.input = <<>> THEN <<>> ELSE tr.input[1] IN
    /\ Len(tr.output) = Len(L)
    /\ \A k \in 1..Len(L) :
         tr.output[k] = [value |-> L[k], type |-> "launchdarkly"]

C27_Witness ==
  /\ tr.fn = "transformLdResponseToAliceResponse"
  /\ tr.input = << <<"developer", "viewer">> >>
  /\ Len(tr.output) = 2

\* C28 (as stated): every operation on path "roles", whatever its op, becomes
\* a downstream operation with op "replace" on the extension schema, whose
\* value holds the custom roles of the rules matched by the role values.
C28_RolesPatchBecomesReplace ==
  tr.fn = "patchUser" =>
    \A k \in 1..Len(tr.input) :
      tr.input[k].path = "roles" =>
        /\ tr.output[k].op = "replace"
        /\ tr.output[k].path = LD_SCIM_EXTENSION_SCHEMA
        /\ tr.output[k].value = FlatCustomRoles(tr.input[k].value)

\* C29 (as stated): every downstream response whose status is neither 2xx
\* nor 401 makes request() throw an LdScimError that carries that status and
\* a detail; the status is not lost when the body cannot be parsed.
C29_ErrorCarriesStatus ==
  \A i \in 1..Len(clientReqs) :
    (/\ clientReqs[i].pc = "done"
     /\ \E st \in DownstreamStatuses \ {401} :
          ~(st \in 200..299) /\ clientReqs[i].firstStatus = <<st>>)
      => /\ clientReqs[i].outcome.kind = "LdScimError"
         /\ clientReqs[i].outcome.status = clientReqs[i].firstStatus
         /\ clientReqs[i].outcome.detail # ""

\* --------------------------------------------------------- partial failures
\* createUser resumes and the INSERT of createUserMapping throws (the
\* statement fails in the database): handleError answers 500 and nothing is
\* stored. In the create branch the downstream user exists by then.
createUserMappingThrows(i) ==
  /\ gw[i].op = "create" /\ gw[i].answer # <<>>
  /\ \/ /\ gw[i].pc = "create" /\ gw[i].answer[1].out.kind = "value"
        /\ gw' = [gw EXCEPT ![i] =
                    Respond([@ EXCEPT !.ldId = gw[i].answer[1].user.id], 500)]
     \/ /\ gw[i].pc = "search"
        /\ findUserByUserName(gw[i].answer[1]).kind = "found"
        /\ gw' = [gw EXCEPT ![i] =
                    Respond([@ EXCEPT !.ldId = findUserByUserName(gw[i].answer[1]).user.id],
                            500)]
  /\ uuids' = uuids + 1
  /\ UNCHANGED <<mappings, nextRowId, ldUsers, ldDeleted>>

\* The create path, one request after the other, with a store that can fail
RecoverNext ==
  \/ GatewayNextSeq
  \/ \E i \in 1..MaxRequests :
       i <= Len(gw) /\ createUserMappingThrows(i)
         /\ UNCHANGED <<tokenVars, clientVars, trVars, authVars>>

\* request i created its downstream user and failed to store the record
StoreFailedAfterCreate(i) ==
  /\ gw[i].op = "create" /\ gw[i].pc = "done" /\ gw[i].status = 500
  /\ gw[i].ldId # 0 /\ ~gw[i].wrote /\ gw[i].found = <<0>>

\* request j is a later create for the userName of request i
RetryOf(j, i) ==
  /\ i < j /\ gw[j].op = "create"
  /\ gw[j].user.userName = gw[i].user.userName /\ gw[j].user.userName # ""

RecordsOfLdId(m, ldId) == {k \in 1..Len(m) : m[k].ldId = ldId}

LdUsersNamed(userName) == {id \in LdIds : LdPresent(id) /\ ldUsers[id].userName = userName}

\* C31: a create whose downstream user was created and whose correlation
\* write failed is answered with an error and leaves no record; the next
\* create for the same userName, once its downstream search is answered,
\* links to that downstream user instead of creating another, and exactly
\* one correlation record for that user exists from then on; the downstream
\* never holds a second user of that name.
C31_RetryLinksAfterPartialFailure ==
  /\ [](\A i \in 1..Len(gw) :
          StoreFailedAfterCreate(i) =>
            /\ gw[i].status >= 400
            /\ Cardinality(LdUsersNamed(gw[i].user.userName)) = 1
            /\ \A j \in 1..Len(gw) :
                 (RetryOf(j, i) /\ gw[j].status = 201)
                   => /\ gw[j].found = <<gw[i].ldId>>
                      /\ "create" \notin {gw[j].sent[k] : k \in 1..Len(gw[j].sent)}
                      /\ RecordsOfLdId(mappings, gw[i].ldId) # {})
  /\ [][\A i, j \in 1..Len(gw) :
          (/\ StoreFailedAfterCreate(i) /\ RetryOf(j, i)
           /\ RecordsOfLdId(mappings, gw[i].ldId) = {}
           /\ gw[j].pc = "search" /\ gw[j].answer # <<>>
           /\ gw[j].answer[1].out.kind = "value"
           /\ gw[j].answer[1].out.data # "undefined"
           /\ gw'[j] # gw[j])
            => /\ gw'[j].pc # "create"
               /\ gw'[j].status # 500
                    => Cardinality(RecordsOfLdId(mappings', gw[i].ldId)) = 1]_vars

\* the retry was answered 201 on the downstream user of the failed create
C31_Witness ==
  \E i, j \in 1..Len(gw) :
    /\ StoreFailedAfterCreate(i) /\ RetryOf(j, i)
    /\ gw[j].status = 201 /\ gw[j].found = <<gw[i].ldId>>
    /\ Cardinality(RecordsOfLdId(mappings, gw[i].ldId)) = 1
    /\ Len(ldUsers) = 1

\* ------------------------------------------------------ record identity
RowsOf(m, aliceId) == {k \in 1..Len(m) : m[k].aliceId = aliceId}

\* C32: while a correlation record exists, its internal id, externalId and
\* downstream id stay what they were when it was created (only the cached
\* userName changes); internal ids are unique, and the internal id of a new
\* record is one that no record, stored or deleted, ever had.
C32_RecordIdentityIsImmutable ==
  /\ [](\A k \in 1..Len(mappings) :
          /\ mappings[k].aliceId <= uuids
          /\ Cardinality(RowsOf(mappings, mappings[k].aliceId)) = 1)
  /\ [][/\ \A k \in 1..Len(mappings), n \in 1..Len(mappings') :
             mappings'[n].aliceId = mappings[k].aliceId
               => /\ mappings'[n].id = mappings[k].id
                  /\ mappings'[n].aliceExternalId = mappings[k].aliceExternalId
                  /\ mappings'[n].ldId = mappings[k].ldId
        /\ \A n \in 1..Len(mappings') :
             RowsOf(mappings, mappings'[n].aliceId) = {}
               => mappings'[n].aliceId > uuids]_vars

\* a replace renamed the provisioned user: the record caches the new
\* userName under the ids it had
C32_Witness ==
  /\ \E i \in 1..Len(gw) : gw[i].op = "replace" /\ gw[i].status = 200
  /\ \E k \in 1..Len(mappings) :
       /\ mappings[k].aliceId = 1 /\ mappings[k].ldUserName = "u2"
       /\ mappings[k].aliceExternalId = "e1" /\ mappings[k].ldId = 1

\* --------------------------------------------------------- patch translation
\* C33: the operations sent downstream by a patch are as many as the inbound
\* ones and in their order: an operation whose path is not "roles" (path
\* "active", another path, no path) is sent with its op, path and value, and
\* an operation on "roles" is replaced, in its place, by one on the extension.
C33_OtherOperationsPassThrough ==
  tr.fn = "patchUser" =>
    /\ Len(tr.output) = Len(tr.input)
    /\ \A k \in 1..Len(tr.input) :
         IF tr.input[k].path = "roles"
           THEN tr.output[k].path = LD_SCIM_EXTENSION_SCHEMA
           ELSE tr.output[k] = tr.input[k]

\* four operations were translated: on active, without path, on roles, on
\* another path
C33_Witness ==
  /\ tr.fn = "patchUser"
  /\ Len(tr.input) = 4 /\ Len(tr.output) = 4
  /\ tr.input[2].path = Undefined /\ tr.output[2] = tr.input[2]
  /\ tr.output[1].path = "active"
  /\ tr.output[3].path = LD_SCIM_EXTENSION_SCHEMA

\* C34 (as stated): the customRole list a patch on "roles" carries is the
\* list transformAliceUserToLdUser derives for a user with those roles: the
\* keys of the matched rules, each key once.
C34_PatchRolesEqualDerivedRoles ==
  tr.fn = "patchUser" =>
    \A k \in 1..Len(tr.input) :
      tr.input[k].path = "roles" =>
        tr.output[k].value = deriveCustomRolesWith(tr.input[k].value, tr.config)

\* ---------------------------------------------------------------- pagination
\* the number a query parameter stands for, when it is a decimal number
NumberOf(param) ==
  CASE param = <<"1">> -> 1
    [] param = <<"2">> -> 2
    [] param = <<"3">> -> 3
    [] param = <<"5">> -> 5
    [] param = <<"0">> -> 0
    [] param = <<"-1">> -> -1

IsNumber(param) == param \in {<<"0">>, <<"1">>, <<"2">>, <<"3">>, <<"5">>, <<"-1">>}

\* the records at the 1-based positions from .. from + n - 1 of rows
PositionsFrom(rows, from, n) ==
  LET last == IF from + n - 1 < Len(rows) THEN from + n - 1 ELSE Len(rows) IN
  IF last < from THEN <<>> ELSE [k \in 1..(last - from + 1) |-> rows[from + k - 1]]

\* C35: for startIndex >= 1 and count >= 1 the page is made of the records
\* at the 1-based positions startIndex .. startIndex + count - 1 of the
\* filtered sequence, as far as it reaches; an absent startIndex stands for
\* 1 and an absent count for 100.
C35_PageIsOneBasedWindow ==
  tr.fn = "listUsers" =>
    LET si == tr.input.startIndex
        c == tr.input.count IN
    ((si = <<>> \/ (IsNumber(si) /\ NumberOf(si) >= 1))
       /\ (c = <<>> \/ (IsNumber(c) /\ NumberOf(c) >= 1)))
      => tr.output.page =
           PositionsFrom(tr.input.rows,
                         IF si = <<>> THEN 1 ELSE NumberOf(si),
                         IF c = <<>> THEN 100 ELSE NumberOf(c))

\* the second and third of four records were asked for
C35_Witness ==
  /\ tr.fn = "listUsers"
  /\ tr.input = [rows |-> <<4, 3, 1, 2>>, startIndex |-> <<"2">>, count |-> <<"2">>]
  /\ tr.output.page = <<3, 1>>

\* ------------------------------------------------- lookup before creating
\* C36 (as stated): when the downstream answers the userName lookup of a
\* create with 404, the lookup returns no user and the create goes on as for
\* no match; when it answers with another error, the create is answered with
\* an error and writes no correlation record.
C36_LookupNotFoundIsNoMatch ==
  [][\A i \in 1..Len(gw) :
       (/\ gw[i].op = "create" /\ gw[i].pc = "search" /\ gw[i].answer # <<>>
        /\ gw'[i] # gw[i])
         => /\ gw[i].ldStatus = 404 => gw'[i].found = <<0>>
            /\ gw[i].ldStatus \notin {200, 404}
                 => /\ gw'[i].pc = "done" /\ gw'[i].status >= 400
                    /\ ~gw'[i].wrote /\ mappings' = mappings]_vars

\* --------------------------------------------------- after a failed refresh
\* the calls that wait, or waited, on token request r
CallsOn(r) == {c \in CallIds : calls[c].req = r}

\* token request r failed and the call that sent it has resumed
FailedAndResumed(r) ==
  /\ reqs[r].state = "rejected"
  /\ \A c \in CallsOn(r) : calls[c].pc # "awaiting"

\* C37 (as stated): once a token request has failed and its sender has
\* resumed, the manager holds no cached token and no refresh handle, every
\* call on that request that was settled got the failure, and the next
\* getAccessToken() or forceRefresh() call sends a new token request.
C37_FailedRefreshLeavesEmpty ==
  /\ [](\A r \in 1..Len(reqs) :
          (r = Len(reqs) /\ FailedAndResumed(r))
            => /\ ~Truthy(accessToken)
               /\ refreshPromise = NoPromise
               /\ \A c \in CallsOn(r) :
                    calls[c].pc # "joined" => calls[c].pc = "failed")
  /\ [][(/\ reqs # <<>> /\ FailedAndResumed(Len(reqs))
         /\ Len(calls') > Len(calls))
          => /\ Len(reqs') = Len(reqs) + 1
             /\ calls'[Len(calls')].pc = "awaiting"]_vars

\* C37 (amended): once a token request has failed and its sender has
\* resumed, the manager holds no usable token (the cache is as it was when
\* the request was sent: empty, or a token inside its buffer window) and no
\* refresh handle, every call on that request that was settled got the
\* failure, and the next getAccessToken() or forceRefresh() call sends a new
\* token request.
C37_FailedRefreshLeavesNoUsableToken ==
  /\ [](\A r \in 1..Len(reqs) :
          (r = Len(reqs) /\ FailedAndResumed(r))
            => /\ AbsentOrInWindow(accessToken, expiresAt, now)
               /\ refreshPromise = NoPromise
               /\ \A c \in CallsOn(r) :
                    calls[c].pc # "joined" => calls[c].pc = "failed")
  /\ [][(/\ reqs # <<>> /\ FailedAndResumed(Len(reqs))
         /\ Len(calls') > Len(calls))
          => /\ Len(reqs') = Len(reqs) + 1
             /\ calls'[Len(calls')].pc = "awaiting"]_vars

\* the first token request failed, its caller got the failure, and a later
\* call got the token of a second request
C37_Witness ==
  /\ Len(reqs) = 2
  /\ reqs[1].state = "rejected" /\ reqs[2].state = "fulfilled"
  /\ \E c, d \in CallIds :
       /\ calls[c].req = 1 /\ calls[c].pc = "failed"
       /\ calls[d].req = 2 /\ calls[d].pc = "returned" /\ calls[d].result = TokenOf(2)
  /\ refreshPromise = NoPromise

\* ------------------------------------------------ link branch, failed sync
\* create request i linked an existing downstream user, its role-sync patch
\* failed, and it was answered with an error
LinkedThenFailed(i) ==
  /\ Linked(i) /\ gw[i].pc = "done" /\ gw[i].status >= 400 /\ gw[i].wrote
  /\ gw[i].sent # <<>> /\ gw[i].sent[Len(gw[i].sent)] = "patch"

DeletesOfOneRecord(i, j) ==
  /\ i # j
  /\ gw[i].op = "delete" /\ gw[j].op = "delete"
  /\ gw[i].aliceId = gw[j].aliceId
  /\ gw[i].sent # <<>> /\ gw[j].sent # <<>>

\* C39 (as stated): of two deletes for one internal id that both read the
\* correlation record, each one that the downstream answers with success or
\* with not-found completes with 204, and once it has, no correlation
\* record with that internal id is left.
C39_ConcurrentDeletesBothSucceed ==
  [][\A i, j \in 1..Len(gw) :
       (/\ DeletesOfOneRecord(i, j)
        /\ gw[j].pc = "delete" /\ gw[j].answer # <<>>
        /\ gw[j].ldStatus \in {204, 404}
        /\ gw'[j] # gw[j])
         => /\ gw'[j].pc = "done" /\ gw'[j].status = 204
            /\ RowsOf(mappings', gw[j].aliceId) = {}]_vars

\* ------------------------------------------- replace and delete, interleaved
\* Concurrent replaceUser and deleteUser requests against the store and the
\* downstream
ReplaceDeleteNext ==
  \/ \E id \in RequestedIds, u \in ReplaceUsers :
       replaceUser(id, u) /\ UNCHANGED <<tokenVars, clientVars, trVars, authVars>>
  \/ \E id \in RequestedIds : deleteUser(id) /\ UNCHANGED <<tokenVars, clientVars, trVars, authVars>>
  \/ \E i \in 1..MaxRequests :
       i <= Len(gw) /\ LdReplaceUser(i) /\ UNCHANGED <<tokenVars, clientVars, trVars, authVars>>
  \/ \E i \in 1..MaxRequests :
       i <= Len(gw) /\ LdDeleteUser(i) /\ UNCHANGED <<tokenVars, clientVars, trVars, authVars>>
  \/ \E i \in 1..MaxRequests, f \in LdFailures :
       i <= Len(gw) /\ LdFails(i, f) /\ UNCHANGED <<tokenVars, clientVars, trVars, authVars>>
  \/ \E i \in 1..MaxRequests :
       i <= Len(gw) /\ replaceUserAfterReplace(i) /\ UNCHANGED <<tokenVars, clientVars, trVars, authVars>>
  \/ \E i \in 1..MaxRequests :
       i <= Len(gw) /\ deleteUserAfterDelete(i) /\ UNCHANGED <<tokenVars, clientVars, trVars, authVars>>

\* ------------------------------------------------ delete against a replace
\* a delete for the internal id has removed the correlation record
RemovedByDelete(aliceId) ==
  \E j \in 1..Len(gw) :
    /\ gw[j].op = "delete" /\ gw[j].aliceId = aliceId
    /\ gw[j].pc = "done" /\ gw[j].wrote

\* C40: once a delete has removed the correlation record of an internal id,
\* the store holds no record with that id again; a replace for that id that
\* was in flight and then runs its userName update changes zero rows.
C40_DeletedRecordIsNotRecreated ==
  /\ [](\A j \in 1..Len(gw) :
          RemovedByDelete(gw[j].aliceId) => RowsOf(mappings, gw[j].aliceId) = {})
  /\ [][\A i \in 1..Len(gw) :
          (/\ gw[i].op = "replace" /\ gw[i].pc = "replace"
           /\ RemovedByDelete(gw[i].aliceId)
           /\ gw'[i].pc = "done")
            => /\ gw'[i].changes \in {<<>>, <<0>>}
               /\ mappings' = mappings]_vars

\* a replace read the record, a delete removed it, and the replace then ran
\* its update
C40_Witness ==
  \E i, j \in 1..Len(gw) :
    /\ gw[i].op = "replace" /\ gw[i].pc = "done" /\ gw[i].status = 200
    /\ gw[i].changes = <<0>>
    /\ gw[j].op = "delete" /\ gw[j].aliceId = gw[i].aliceId
    /\ gw[j].pc = "done" /\ gw[j].wrote
    /\ RowsOf(mappings, gw[i].aliceId) = {}

\* ------------------------------------------------------------ specifications
Init == TokenInit /\ ClientInit /\ GatewayInit /\ TrInit /\ AuthInit

SpecToken == Init /\ [][TokenNext]_vars

SpecClient == Init /\ [][ClientNext]_vars

\* the gateway under concurrent inbound requests
Spec == Init /\ [][GatewayNext]_vars

\* the gateway under inbound requests sent one after the other
SpecSeq == Init /\ [][GatewayNextSeq]_vars

\* the gateway with all its operations, started with an empty store or with
\* one provisioned user
InitOps == TokenInit /\ ClientInit /\ (GatewayInit \/ GatewayInitProvisioned) /\ TrInit /\ AuthInit

SpecOps == InitOps /\ [][OpsNext]_vars

SpecOpsSeq == InitOps /\ [][OpsNextSeq]_vars

\* the gateway behind bearerTokenAuth, started with one provisioned user
InitAuth == TokenInit /\ ClientInit /\ GatewayInitProvisioned /\ TrInit /\ AuthInit

SpecAuth == InitAuth /\ [][AuthNext]_vars

\* The translation functions applied to every input of the sets above.
SpecTransform == Init /\ [][TrNext]_vars

\* the create path, one request after the other, with a store that can fail
SpecRecover == Init /\ [][RecoverNext]_vars

\* replace and delete requests interleaved, started with one provisioned user
SpecReplaceDelete == InitAuth /\ [][ReplaceDeleteNext]_vars

====
